---------------------------- MODULE Spec2Model ----------------------------
(***************************************************************************)
(* Entity resolution and price matching of the card tracker:               *)
(*   data_loader.py  - text normalisation, the price index and its lookup  *)
(*   scraper.py      - the scraped-product inventory and its lazy reload   *)
(*                                                                         *)
(* A Python str is modelled as a sequence of characters, each character a  *)
(* one-letter TLA+ string, so that the normalisers are computed character  *)
(* by character as the source computes them.                               *)
(***************************************************************************)
EXTENDS Integers, Sequences, FiniteSets, TLC

(***************************************************************************)
(* Characters and generic string helpers (Python str methods).             *)
(***************************************************************************)
Digits == {"0", "1", "2", "3", "4", "5", "6", "7", "8", "9"}

LowerLetters ==
    {"a", "b", "c", "d", "e", "f", "g", "h", "i", "j", "k", "l", "m",
     "n", "o", "p", "q", "r", "s", "t", "u", "v", "w", "x", "y", "z"}

UpperSeq ==
    <<"A", "B", "C", "D", "E", "F", "G", "H", "I", "J", "K", "L", "M",
      "N", "O", "P", "Q", "R", "S", "T", "U", "V", "W", "X", "Y", "Z">>

LowerSeq ==
    <<"a", "b", "c", "d", "e", "f", "g", "h", "i", "j", "k", "l", "m",
      "n", "o", "p", "q", "r", "s", "t", "u", "v", "w", "x", "y", "z">>

\* str.lower() on one character
LowerChar(c) ==
    IF \E i \in 1..Len(UpperSeq) : UpperSeq[i] = c
    THEN LowerSeq[CHOOSE i \in 1..Len(UpperSeq) : UpperSeq[i] = c]
    ELSE c

\* str.lower()
Lower(s) == SubSeq([i \in 1..Len(s) |-> LowerChar(s[i])], 1, Len(s))

IsAlnum(c) == c \in Digits \/ c \in LowerLetters

\* \w of the re module, on the characters of the model
IsWordChar(c) == IsAlnum(LowerChar(c)) \/ c = "_"

IsSpace(c) == c = " "

\* s[i:] with a 1-based i
Drop(s, i) == IF i > Len(s) THEN <<>> ELSE SubSeq(s, i, Len(s))

\* s[:n]
Take(s, n) == IF n <= 0 THEN <<>> ELSE SubSeq(s, 1, IF n > Len(s) THEN Len(s) ELSE n)

\* s.startswith(p) from the 1-based position i
StartsWithAt(s, i, p) ==
    /\ i + Len(p) - 1 <= Len(s)
    /\ \A k \in 1..Len(p) : s[i + k - 1] = p[k]

\* p in s
Contains(s, p) == \E i \in 1..(Len(s) + 1) : StartsWithAt(s, i, p)

RECURSIVE LStripSpace(_)
LStripSpace(s) ==
    IF s # <<>> /\ IsSpace(Head(s)) THEN LStripSpace(Tail(s)) ELSE s

RECURSIVE RStripSpace(_)
RStripSpace(s) ==
    IF s # <<>> /\ IsSpace(s[Len(s)]) THEN RStripSpace(Take(s, Len(s) - 1)) ELSE s

\* str.strip()
Strip(s) == RStripSpace(LStripSpace(s))

\* re.sub(r'\s+', ' ', s): every run of spaces becomes one space
RECURSIVE CollapseSpaces(_)
CollapseSpaces(s) ==
    IF s = <<>> THEN <<>>
    ELSE IF IsSpace(Head(s))
         THEN <<" ">> \o CollapseSpaces(LStripSpace(s))
         ELSE <<Head(s)>> \o CollapseSpaces(Tail(s))

\* str.split(): the whitespace-separated words, in order
RECURSIVE SplitWords(_)
SplitWords(s) ==
    LET t == LStripSpace(s) IN
    IF t = <<>> THEN <<>>
    ELSE LET n == IF \E i \in 1..Len(t) : IsSpace(t[i])
                  THEN (CHOOSE i \in 1..Len(t) :
                            IsSpace(t[i]) /\ \A j \in 1..(i - 1) : ~IsSpace(t[j])) - 1
                  ELSE Len(t)
         IN <<Take(t, n)>> \o SplitWords(Drop(t, n + 1))

\* ' '.join(words)
RECURSIVE JoinWords(_)
JoinWords(ws) ==
    IF ws = <<>> THEN <<>>
    ELSE IF Len(ws) = 1 THEN ws[1]
    ELSE ws[1] \o <<" ">> \o JoinWords(Tail(ws))

\* set(s.split())
token_set(s) == LET ws == SplitWords(s) IN {ws[i] : i \in 1..Len(ws)}


(***************************************************************************)
(* data_loader.py: normalisation.                                          *)
(***************************************************************************)
\* The printing descriptors that are not part of the name key.  The source
\* holds them in a set and walks it with list(_VARIANT_WORDS), whose order is
\* the interpreter's; the model walks them in the order they are written.
VARIANT_WORDS ==
    <<<<"r", "e", "v", "e", "r", "s", "e">>,
      <<"r", "e", "v">>,
      <<"r", "e", "v", "e", "r", "s", "e", " ", "h", "o", "l", "o">>,
      <<"r", "e", "v", " ", "h", "o", "l", "o">>,
      <<"r", "e", "v", "e", "r", "s", "e", "-", "h", "o", "l", "o">>,
      <<"h", "o", "l", "o">>,
      <<"h", "o", "l", "o", "f", "o", "i", "l">>,
      <<"f", "o", "i", "l">>,
      <<"r", "a", "i", "n", "b", "o", "w", " ", "f", "o", "i", "l">>,
      <<"g", "a", "l", "a", "x", "y">>,
      <<"c", "o", "s", "m", "o", "s">>,
      <<"n", "o", "n", "-", "h", "o", "l", "o">>,
      <<"n", "o", "n", " ", "h", "o", "l", "o">>,
      <<"u", "n", "l", "i", "m", "i", "t", "e", "d">>,
      <<"f", "i", "r", "s", "t", " ", "e", "d", "i", "t", "i", "o", "n">>,
      <<"1", "s", "t", " ", "e", "d", "i", "t", "i", "o", "n">>,
      <<"1", "s", "t">>,
      <<"s", "h", "a", "d", "o", "w", "l", "e", "s", "s">>,
      <<"s", "t", "a", "f", "f">>,
      <<"p", "r", "e", "r", "e", "l", "e", "a", "s", "e">>,
      <<"p", "r", "e", "-", "r", "e", "l", "e", "a", "s", "e">>,
      <<"p", "r", "o", "m", "o">>,
      <<"j", "u", "m", "b", "o">>,
      <<"o", "v", "e", "r", "s", "i", "z", "e">>,
      <<"s", "h", "a", "t", "t", "e", "r", "e", "d", " ", "g", "l", "a", "s", "s">>,
      <<"c", "r", "a", "c", "k", "e", "d", " ", "i", "c", "e">>,
      <<"e", "-", "r", "e", "a", "d", "e", "r">>,
      <<"m", "i", "n", "i">>,
      <<"g", "o", "l", "d", " ", "s", "t", "a", "r">>,
      <<"g", "o", "l", "d", "-", "s", "t", "a", "r">>,
      <<"g", "o", "l", "d", "s", "t", "a", "r">>>>

\* html.unescape on the character references the model's inputs can spell
HtmlEntities ==
    <<[pat |-> <<"&", "a", "m", "p", ";">>, rep |-> <<"&">>],
      [pat |-> <<"&", "#", "3", "9", ";">>, rep |-> <<"'">>]>>

\* urllib.parse.unquote on the escapes the model's inputs can spell
PercentEscapes ==
    <<[pat |-> <<"%", "2", "7">>, rep |-> <<"'">>],
      [pat |-> <<"%", "2", "5">>, rep |-> <<"%">>],
      [pat |-> <<"%", "2", "0">>, rep |-> <<" ">>]>>

\* One left-to-right pass replacing each occurrence of a pattern of the table;
\* replaced text is not scanned again.
RECURSIVE ReplaceTable(_, _)
ReplaceTable(s, table) ==
    IF s = <<>> THEN <<>>
    ELSE IF \E k \in 1..Len(table) : StartsWithAt(s, 1, table[k].pat)
         THEN LET k == CHOOSE k \in 1..Len(table) : StartsWithAt(s, 1, table[k].pat)
              IN table[k].rep \o ReplaceTable(Drop(s, Len(table[k].pat) + 1), table)
         ELSE <<Head(s)>> \o ReplaceTable(Tail(s), table)

unescape_decode(s) == ReplaceTable(ReplaceTable(s, HtmlEntities), PercentEscapes)

\* normalize('NFKD', s).encode('ASCII', 'ignore'): an accented letter keeps its
\* base letter, a compatibility character its ASCII spelling, and any other
\* non-ASCII character is dropped.  The non-ASCII characters of the model are
\* written "e_acute" (U+00E9), "tm_sign" (U+2122) and "euro_sign" (U+20AC).
AsciiFold(c) ==
    IF c = "e_acute" THEN <<"e">>
    ELSE IF c = "tm_sign" THEN <<"T", "M">>
    ELSE IF c = "euro_sign" THEN <<>>
    ELSE <<c>>

RECURSIVE AsciiFoldAll(_)
AsciiFoldAll(s) ==
    IF s = <<>> THEN <<>> ELSE AsciiFold(Head(s)) \o AsciiFoldAll(Tail(s))

ascii_lower(s) == Strip(Lower(AsciiFoldAll(unescape_decode(s))))

\* _alnum.sub(' ', s): every run of characters outside [a-z0-9] becomes a space
RECURSIVE NonAlnumToSpace(_)
NonAlnumToSpace(s) ==
    IF s = <<>> THEN <<>>
    ELSE IF IsAlnum(Head(s))
         THEN <<Head(s)>> \o NonAlnumToSpace(Tail(s))
         ELSE LET rest == NonAlnumToSpace(Tail(s)) IN
              IF rest # <<>> /\ Head(rest) = " " THEN rest ELSE <<" ">> \o rest

\* _tokenize without the _alnum.sub of line 90
tokenize_keeping_punctuation(s) == Strip(CollapseSpaces(ascii_lower(s)))

tokenize(s) == Strip(CollapseSpaces(NonAlnumToSpace(ascii_lower(s))))

\* any(w in low for w in _VARIANT_WORDS)
HasVariantWord(low) == \E k \in 1..Len(VARIANT_WORDS) : Contains(low, VARIANT_WORDS[k])

\* re.sub(r'\[(.*?)\]', _repl, s): a bracketed segment (up to the first closing
\* bracket) is removed when its inside names a variant word, else kept.
RECURSIVE StripBrackets(_)
StripBrackets(s) ==
    IF s = <<>> THEN <<>>
    ELSE IF Head(s) = "[" /\ \E j \in 2..Len(s) : s[j] = "]"
         THEN LET j == CHOOSE j \in 2..Len(s) :
                          s[j] = "]" /\ \A m \in 2..(j - 1) : s[m] # "]"
                  inside == SubSeq(s, 2, j - 1)
              IN IF HasVariantWord(Lower(inside))
                 THEN StripBrackets(Drop(s, j + 1))
                 ELSE SubSeq(s, 1, j) \o StripBrackets(Drop(s, j + 1))
         ELSE <<Head(s)>> \o StripBrackets(Tail(s))

\* w matched case-insensitively at position i, followed by (?:$|\b)
LooseWordAt(s, i, w) ==
    /\ StartsWithAt(Lower(s), i, w)
    /\ \/ i + Len(w) > Len(s)
       \/ IsWordChar(s[i + Len(w) - 1]) # IsWordChar(s[i + Len(w)])

\* re.sub(r'(?:^|\s|[-...])' + re.escape(w) + r'(?:$|\b)', ' ', s, IGNORECASE),
\* scanning from position i of the original string
RECURSIVE StripLooseFrom(_, _, _)
StripLooseFrom(s, i, w) ==
    IF i > Len(s) THEN <<>>
    ELSE IF i = 1 /\ LooseWordAt(s, 1, w)
         THEN <<" ">> \o StripLooseFrom(s, 1 + Len(w), w)
    ELSE IF (IsSpace(s[i]) \/ s[i] = "-") /\ LooseWordAt(s, i + 1, w)
         THEN <<" ">> \o StripLooseFrom(s, i + 1 + Len(w), w)
    ELSE <<s[i]>> \o StripLooseFrom(s, i + 1, w)

\* "for w in list(_VARIANT_WORDS): s = re.sub(...)" from word k on; a word that
\* does not occur in s leaves it as it is
RECURSIVE StripLooseWords(_, _)
StripLooseWords(s, k) ==
    IF k > Len(VARIANT_WORDS) THEN s
    ELSE LET r == IF Contains(Lower(s), VARIANT_WORDS[k])
                  THEN StripLooseFrom(s, 1, VARIANT_WORDS[k])
                  ELSE s
         IN IF Len(r) >= 0 THEN StripLooseWords(r, k + 1) ELSE r

strip_variant_tags(text) ==
    IF text = <<>> THEN text
    ELSE Strip(CollapseSpaces(StripLooseWords(StripBrackets(text), 1)))


\* word boundary \b between positions i-1 and i of s (1-based i in 1..Len(s)+1)
BoundaryAt(s, i) ==
    LET before == i > 1 /\ IsWordChar(s[i - 1])
        after  == i <= Len(s) /\ IsWordChar(s[i])
    IN before # after

\* \b(?:w1|w2|...)\b at position i: the first alternative, in order, that matches
WordAltAt(s, i, alts) ==
    IF BoundaryAt(s, i)
    THEN {k \in 1..Len(alts) :
            StartsWithAt(s, i, alts[k]) /\ BoundaryAt(s, i + Len(alts[k]))}
    ELSE {}

\* re.sub(r'\b(?:w1|w2|...)\b', repl, s)
SubWords(s, alts, repl) ==
    IF s = <<>> THEN <<>>
    ELSE LET RECURSIVE From(_)
             From(i) ==
                 IF i > Len(s) THEN <<>>
                 ELSE LET hit == WordAltAt(s, i, alts) IN
                      IF hit # {}
                      THEN LET k == CHOOSE k \in hit : \A m \in hit : k <= m
                           IN repl \o From(i + Len(alts[k]))
                      ELSE <<s[i]>> \o From(i + 1)
         IN From(1)

\* the first position at or after i that holds no space
RECURSIVE SkipSpaces(_, _)
SkipSpaces(s, i) == IF i <= Len(s) /\ IsSpace(s[i]) THEN SkipSpaces(s, i + 1) ELSE i

\* \bX\s*(?:&|and)?\s*Y\b at position i: the position after the match, or 0
SeriesEndAt(s, i, x, y) ==
    IF ~(BoundaryAt(s, i) /\ StartsWithAt(s, i, x)) THEN 0
    ELSE LET j  == SkipSpaces(s, i + Len(x))
             ja == IF StartsWithAt(s, j, <<"a", "n", "d">>) THEN SkipSpaces(s, j + 3)
                   ELSE IF StartsWithAt(s, j, <<"&">>) THEN SkipSpaces(s, j + 1)
                   ELSE 0
         IN IF ja > 0 /\ StartsWithAt(s, ja, y) /\ BoundaryAt(s, ja + Len(y))
            THEN ja + Len(y)
            ELSE IF StartsWithAt(s, j, y) /\ BoundaryAt(s, j + Len(y))
            THEN j + Len(y)
            ELSE 0

\* re.sub(r'\b' + pat + r'\b', '', s) for one series pattern
SubSeries(s, x, y) ==
    LET RECURSIVE From(_)
        From(i) ==
            IF i > Len(s) THEN <<>>
            ELSE LET e == SeriesEndAt(s, i, x, y) IN
                 IF e > 0 THEN From(e) ELSE <<s[i]>> \o From(i + 1)
    IN From(1)

series_patterns ==
    <<<<<<"d", "i", "a", "m", "o", "n", "d">>, <<"p", "e", "a", "r", "l">>>>,
      <<<<"b", "l", "a", "c", "k">>, <<"w", "h", "i", "t", "e">>>>,
      <<<<"s", "u", "n">>, <<"m", "o", "o", "n">>>>,
      <<<<"s", "w", "o", "r", "d">>, <<"s", "h", "i", "e", "l", "d">>>>,
      <<<<"s", "c", "a", "r", "l", "e", "t">>, <<"v", "i", "o", "l", "e", "t">>>>,
      <<<<"h", "e", "a", "r", "t", "g", "o", "l", "d">>,
        <<"s", "o", "u", "l", "s", "i", "l", "v", "e", "r">>>>>>

RECURSIVE SubAllSeries(_, _)
SubAllSeries(s, k) ==
    IF k > Len(series_patterns) THEN s
    ELSE SubAllSeries(SubSeries(s, series_patterns[k][1], series_patterns[k][2]), k + 1)

\* [word for word in s.split() if word != 'set']
RECURSIVE DropSetWords(_)
DropSetWords(ws) ==
    IF ws = <<>> THEN <<>>
    ELSE IF Head(ws) = <<"s", "e", "t">> THEN DropSetWords(Tail(ws))
    ELSE <<Head(ws)>> \o DropSetWords(Tail(ws))

\* the re.sub calls of _normalize_set before the series patterns, in order
subs_before_series ==
    <<[alts |-> <<<<"e", "x", "p", "e", "d", "i", "t", "i", "o", "n", " ", "b", "a", "s", "e",
                    " ", "s", "e", "t">>,
                  <<"e", "x", "p", "e", "d", "i", "t", "i", "o", "n", " ", "b", "a", "s", "e">>>>,
       repl |-> <<"e", "x", "p", "e", "d", "i", "t", "i", "o", "n">>],
      [alts |-> <<<<"p", "o", "k", "e", "m", "o", "n", " ",
                    "e", "x", "p", "e", "d", "i", "t", "i", "o", "n">>>>,
       repl |-> <<"e", "x", "p", "e", "d", "i", "t", "i", "o", "n">>],
      [alts |-> <<<<"1", "s", "t">>,
                  <<"f", "i", "r", "s", "t">>,
                  <<"e", "d", "i", "t", "i", "o", "n">>,
                  <<"s", "h", "a", "d", "o", "w", "l", "e", "s", "s">>>>,
       repl |-> <<>>],
      [alts |-> <<<<"p", "o", "k", "e", "m", "o", "n">>,
                  <<"t", "c", "g">>,
                  <<"t", "h", "e">>,
                  <<"t", "r", "a", "d", "i", "n", "g">>,
                  <<"c", "a", "r", "d">>,
                  <<"g", "a", "m", "e">>,
                  <<"s", "e", "r", "i", "e", "s">>>>,
       repl |-> <<>>]>>

\* the re.sub calls after the series patterns: era tags, then publisher noise
subs_after_series ==
    <<[alts |-> <<<<"d", "p">>,
                  <<"b", "w">>,
                  <<"x", "y">>,
                  <<"s", "m">>,
                  <<"s", "w", "s", "h">>,
                  <<"s", "v">>,
                  <<"h", "g", "s", "s">>>>,
       repl |-> <<>>],
      [alts |-> <<<<"w", "i", "z", "a", "r", "d", "s">>,
                  <<"w", "o", "t", "c">>>>,
       repl |-> <<>>]>>

\* the last re.sub: promos -> promo
subs_promos == <<[alts |-> <<<<"p", "r", "o", "m", "o", "s">>>>,
                 repl |-> <<"p", "r", "o", "m", "o">>]>>

\* a list of re.sub calls applied one after the other, from call k on
RECURSIVE SubAllWords(_, _, _)
SubAllWords(s, subs, k) ==
    IF k > Len(subs) THEN s
    ELSE SubAllWords(SubWords(s, subs[k].alts, subs[k].repl), subs, k + 1)

normalize_set(text) ==
    Strip(CollapseSpaces(
        SubAllWords(
            JoinWords(DropSetWords(SplitWords(
                SubAllWords(
                    SubAllSeries(
                        SubAllWords(tokenize(unescape_decode(text)), subs_before_series, 1),
                        1),
                    subs_after_series, 1)))),
            subs_promos, 1)))

\* s.split('/')[0]
RECURSIVE BeforeSlash(_)
BeforeSlash(s) ==
    IF s = <<>> \/ Head(s) = "/" THEN <<>> ELSE <<Head(s)>> \o BeforeSlash(Tail(s))

\* s.lstrip('#')
RECURSIVE LStripHash(_)
LStripHash(s) == IF s # <<>> /\ Head(s) = "#" THEN LStripHash(Tail(s)) ELSE s

normalize_number(num) == LStripHash(BeforeSlash(Lower(Strip(num))))

\* re.sub(r'[^0-9]', '', num_norm)
RECURSIVE digits_only(_)
digits_only(num_norm) ==
    IF num_norm = <<>> THEN <<>>
    ELSE (IF Head(num_norm) \in Digits THEN <<Head(num_norm)>> ELSE <<>>)
         \o digits_only(Tail(num_norm))

name_norm(name) == tokenize(strip_variant_tags(name))

name_norm_raw(name) == tokenize(name)

(***************************************************************************)
(* data_loader.py: _set_similarity.  difflib.SequenceMatcher(None, a, b)   *)
(* .ratio() is 2*M/(len(a)+len(b)), M the total size of the matching       *)
(* blocks found by taking the longest common block (the earliest in a,     *)
(* then the earliest in b) and recursing to its left and to its right.     *)
(* Scores are kept as exact fractions [num, den].                          *)
(***************************************************************************)
\* the length of the common run of a from i and b from j, within the windows
RECURSIVE RunLen(_, _, _, _, _, _)
RunLen(a, i, ahi, b, j, bhi) ==
    IF i <= ahi /\ j <= bhi /\ a[i] = b[j]
    THEN 1 + RunLen(a, i + 1, ahi, b, j + 1, bhi)
    ELSE 0

\* the length of the common run that starts at cell c = <<i, j>>
RunAt(a, ahi, b, bhi, c) == RunLen(a, c[1], ahi, b, c[2], bhi)

\* the cell of the longest run; among the longest the one that starts earliest
\* in a, and of those earliest in b
LongestCell(a, ahi, b, bhi, cells) ==
    CHOOSE c \in cells :
        \A d \in cells :
            \/ RunAt(a, ahi, b, bhi, c) > RunAt(a, ahi, b, bhi, d)
            \/ /\ RunAt(a, ahi, b, bhi, c) = RunAt(a, ahi, b, bhi, d)
               /\ (c[1] < d[1] \/ (c[1] = d[1] /\ c[2] <= d[2]))

MatchAt(a, ahi, b, bhi, best) ==
    [i |-> best[1], j |-> best[2], k |-> RunAt(a, ahi, b, bhi, best)]

\* SequenceMatcher.find_longest_match over a[alo..ahi], b[blo..bhi] (1-based, inclusive)
find_longest_match(a, alo, ahi, b, blo, bhi) ==
    MatchAt(a, ahi, b, bhi, LongestCell(a, ahi, b, bhi, (alo..ahi) \X (blo..bhi)))

\* the total size of SequenceMatcher.get_matching_blocks: the longest match m,
\* then the blocks to its left and to its right
RECURSIVE MatchTotal(_, _, _, _, _, _)
RECURSIVE AroundMatch(_, _, _, _, _, _, _)
AroundMatch(a, alo, ahi, b, blo, bhi, m) ==
    IF m.k = 0 THEN 0
    ELSE m.k + MatchTotal(a, alo, m.i - 1, b, blo, m.j - 1)
             + MatchTotal(a, m.i + m.k, ahi, b, m.j + m.k, bhi)

MatchTotal(a, alo, ahi, b, blo, bhi) ==
    IF alo > ahi \/ blo > bhi THEN 0
    ELSE AroundMatch(a, alo, ahi, b, blo, bhi, find_longest_match(a, alo, ahi, b, blo, bhi))

\* SequenceMatcher(None, a, b).ratio() as a fraction
SeqRatio(a, b) ==
    IF Len(a) + Len(b) = 0 THEN [num |-> 1, den |-> 1]
    ELSE [num |-> 2 * MatchTotal(a, 1, Len(a), b, 1, Len(b)), den |-> Len(a) + Len(b)]

\* len(ta & tb) / max(1, len(ta | tb)), 0 when either token set is empty
JaccardOf(ta, tb) ==
    IF ta = {} \/ tb = {} THEN [num |-> 0, den |-> 1]
    ELSE [num |-> Cardinality(ta \cap tb), den |-> Cardinality(ta \cup tb)]

Jaccard(a, b) == JaccardOf(token_set(a), token_set(b))

\* the two weights exchanged: 0.4 * jac + 0.6 * seq
WeightedSwapped(jac, seq) ==
    [num |-> 4 * jac.num * seq.den + 6 * seq.num * jac.den,
     den |-> 10 * jac.den * seq.den]

\* 0.6 * jac + 0.4 * seq
Weighted(jac, seq) ==
    [num |-> 6 * jac.num * seq.den + 4 * seq.num * jac.den,
     den |-> 10 * jac.den * seq.den]

set_similarity(a, b) == Weighted(Jaccard(a, b), SeqRatio(a, b))

\* comparison of two fractions with positive denominators
FracGT(x, y) == x.num * y.den > y.num * x.den

FracGE(x, y) == x.num * y.den >= y.num * x.den


(***************************************************************************)
(* data_loader.py: the price file and the build of the price index.        *)
(***************************************************************************)
\* Python's None where a record is expected (a lookup result)
None == [none |-> TRUE]

\* Python's None in a price field (prices are never negative)
NoPrice == -1

\* A price row as _load_price_data sees it once _col has resolved the header
\* aliases: the cells under the name, set, number, raw price, PSA 9 and PSA 10
\* columns (an empty cell is the empty string).
PriceRows ==
    <<[name |-> <<"P", "i", "k", "a">>, set |-> <<"B", "a", "s", "e", " ", "S", "e", "t">>,
       number |-> <<"4", "/", "1", "0", "2">>, raw |-> <<"1", "0">>, psa9 |-> <<>>, psa10 |-> <<>>],
      [name |-> <<"P", "i", "k", "a", " ", "[", "H", "o", "l", "o", "]">>,
       set |-> <<"B", "a", "s", "e">>,
       number |-> <<"#", "4">>, raw |-> <<>>, psa9 |-> <<"5">>, psa10 |-> <<"8">>],
      [name |-> <<"P", "i", "k", "a">>, set |-> <<"B", "a", "s", "e">>,
       number |-> <<"4">>, raw |-> <<>>, psa9 |-> <<>>, psa10 |-> <<"9">>],
      [name |-> <<"P", "i", "k", "a">>, set |-> <<"B", "a", "s", "e">>,
       number |-> <<"H", "4">>, raw |-> <<>>, psa9 |-> <<>>, psa10 |-> <<"7">>],
      [name |-> <<"P", "i", "k", "a", " ", "#", "4">>,
       set |-> <<"P", "o", "k", "e", "m", "o", "n", " ", "N", "e", "o", " ", "G", "y", "m">>,
       number |-> <<>>, raw |-> <<"$", "6">>, psa9 |-> <<>>, psa10 |-> <<>>],
      [name |-> <<"P", "i", "k", "a">>, set |-> <<"J", "u", "n", "g", "l", "e">>,
       number |-> <<"/", "1", "0", "2">>, raw |-> <<"3">>, psa9 |-> <<>>, psa10 |-> <<>>],
      [name |-> <<>>, set |-> <<"B", "a", "s", "e">>,
       number |-> <<"4">>, raw |-> <<"2">>, psa9 |-> <<>>, psa10 |-> <<>>],
      [name |-> <<"P", "i", "k", "a">>, set |-> <<"N", "e", "o", " ", "G", "y", "m">>,
       number |-> <<"4">>, raw |-> <<"1">>, psa9 |-> <<>>, psa10 |-> <<"9">>]>>

\* the decimal value of a string of digits
RECURSIVE DigitsValue(_)
DigitsValue(s) ==
    IF s = <<>> THEN 0
    ELSE 10 * DigitsValue(Take(s, Len(s) - 1))
         + (CHOOSE d \in 0..9 : ToString(d) = s[Len(s)])

\* s with every character of the set removed
RECURSIVE RemoveChars(_, _)
RemoveChars(s, drop) ==
    IF s = <<>> THEN <<>>
    ELSE (IF Head(s) \in drop THEN <<>> ELSE <<Head(s)>>) \o RemoveChars(Tail(s), drop)

\* _parse_price on a cell; float(s) is modelled on strings of digits (the cells
\* of the model), any other text raising and giving None
PriceOfCleaned(s, c) ==
    IF s = <<>> \/ Lower(s) \in {<<"n", "a", "n">>, <<"n", "o", "n", "e">>} THEN NoPrice
    ELSE IF c # <<>> /\ \A i \in 1..Len(c) : c[i] \in Digits THEN DigitsValue(c)
    ELSE NoPrice

PriceOfStripped(s) == PriceOfCleaned(s, RemoveChars(s, {",", "euro_sign", "$", "pound_sign"}))

parse_price(val) == PriceOfStripped(Strip(val))

\* the text of one row as _detect_currency_from_rows joins it: "k:v" of every cell
RowText(r) ==
    <<"n", "a", "m", "e", ":">> \o r.name \o <<" ", "s", "e", "t", ":">> \o r.set
    \o <<" ", "n", "u", "m", "b", "e", "r", ":">> \o r.number
    \o <<" ", "r", "a", "w", ":">> \o r.raw
    \o <<" ", "p", "s", "a", "9", ":">> \o r.psa9
    \o <<" ", "p", "s", "a", "1", "0", ":">> \o r.psa10

RECURSIVE JoinedText(_)
JoinedText(rows) ==
    IF rows = <<>> THEN <<>>
    ELSE IF Len(rows) = 1 THEN RowText(rows[1])
    ELSE RowText(rows[1]) \o <<" ">> \o JoinedText(Tail(rows))

\* the first symbol or word of the three currencies found in the joined text
CurrencyIn(joined) ==
    IF Contains(joined, <<"euro_sign">>) \/ Contains(joined, <<" ", "e", "u", "r">>)
       \/ Contains(joined, <<"e", "u", "r", "o">>) THEN "EUR"
    ELSE IF Contains(joined, <<"$">>) \/ Contains(joined, <<" ", "u", "s", "d">>)
       \/ Contains(joined, <<"d", "o", "l", "l", "a", "r">>) THEN "USD"
    ELSE IF Contains(joined, <<"pound_sign">>) \/ Contains(joined, <<" ", "g", "b", "p">>)
       \/ Contains(joined, <<"p", "o", "u", "n", "d">>) THEN "GBP"
    ELSE "EUR"

\* _detect_currency_from_rows(rows), over rows[:5]
detect_currency_from_rows(rows) == CurrencyIn(Lower(JoinedText(Take(rows, 5))))

\* _row_is_variant(original_name)
IsVariantText(low) ==
    \/ Contains(low, <<"[">>) /\ Contains(low, <<"]">>)
    \/ HasVariantWord(low)

row_is_variant(original_name) == IsVariantText(Lower(original_name))

\* the 1-based position of the last '#' of s, 0 when there is none
LastHash(s) ==
    IF \E i \in 1..Len(s) : s[i] = "#"
    THEN CHOOSE i \in 1..Len(s) : s[i] = "#" /\ \A j \in (i + 1)..Len(s) : s[j] # "#"
    ELSE 0

\* quality_score with every populated price counted 1
quality_score_flat(raw_price, psa9_price, psa10_price, is_variant) ==
    10 * ((IF raw_price # NoPrice THEN 1 ELSE 0) + (IF psa9_price # NoPrice THEN 1 ELSE 0)
          + (IF psa10_price # NoPrice THEN 1 ELSE 0) + (IF ~is_variant THEN 2 ELSE 0))

\* richness + (2 if not is_variant else 0), in tenths
quality_score(raw_price, psa9_price, psa10_price, is_variant) ==
    LET richness == (IF raw_price # NoPrice THEN 1 ELSE 0)
                    + (IF psa9_price # NoPrice THEN 2 ELSE 0)
                    + (IF psa10_price # NoPrice THEN 3 ELSE 0)
    IN 10 * (richness + (IF ~is_variant THEN 2 ELSE 0))

\* "if set_name.lower().startswith('pokemon '): set_name = set_name.split(' ', 1)[1].strip()"
StripPokemon(set_name) ==
    IF StartsWithAt(Lower(set_name), 1, <<"p", "o", "k", "e", "m", "o", "n", " ">>)
    THEN Strip(Drop(set_name, 9))
    ELSE set_name

\* "if not number_raw and '#' in card_name": the number is pulled from after the
\* last '#' of the title, at position h (0 when the title has none)
PullNumber(card_name, number_raw, h) ==
    IF number_raw = <<>> /\ h > 0
    THEN [card_name |-> Strip(Take(card_name, h - 1)),
          number_raw |-> Strip(Drop(card_name, h + 1))]
    ELSE [card_name |-> card_name, number_raw |-> number_raw]

\* the keys and the score of a row once its fields are settled
RowKeys(card_name, set_name, number_raw, raw_price, psa9_price, psa10_price, is_variant) ==
    [skip |-> card_name = <<>> \/ set_name = <<>> \/ number_raw = <<>>,
     card_name |-> card_name, set_name |-> set_name, number_raw |-> number_raw,
     name_norm_base |-> name_norm(card_name),
     name_norm_raw |-> name_norm_raw(card_name),
     set_norm |-> normalize_set(set_name),
     num_norm |-> normalize_number(number_raw),
     market |-> raw_price, psa9 |-> psa9_price, psa10 |-> psa10_price,
     is_variant |-> is_variant,
     score |-> quality_score(raw_price, psa9_price, psa10_price, is_variant)]

RowOf(nn, set_name, row) ==
    RowKeys(nn.card_name, set_name, nn.number_raw,
            parse_price(row.raw), parse_price(row.psa9), parse_price(row.psa10),
            row_is_variant(nn.card_name))

NameAndNumber(card_name, number_raw) ==
    PullNumber(card_name, number_raw, LastHash(card_name))

\* The per-row part of _load_price_data up to the keys and the score: the
\* fields after decoding, the 'pokemon ' prefix and the '#' number rule, the
\* parsed prices, whether the row is skipped, the keys and the quality score.
\* Scores are kept in tenths (30 is the source's 3, 49 its 4.9).
ParsePriceRow(row) ==
    RowOf(NameAndNumber(unescape_decode(Strip(row.name)), Strip(row.number)),
          StripPokemon(unescape_decode(Strip(row.set))), row)

RECURSIVE ParseAllRows(_)
ParseAllRows(rows) ==
    IF rows = <<>> THEN <<>>
    ELSE <<ParsePriceRow(Head(rows))>> \o ParseAllRows(Tail(rows))

\* the parsed form of every row of PriceRows, computed once
ParsedPriceRows == ParseAllRows(PriceRows)

\* The index: price_map maps (name, set, number) to a record carrying "_score";
\* price_index is the set of (name, number) pairs; by_name_num maps a
\* (name, number) pair to the list of (set, record) of its rows.
EmptyIndex == [price_map |-> <<>>, price_index |-> {}, by_name_num |-> <<>>]

\* dict assignment d[k] = v
Put(d, k, v) == (k :> v) @@ d

\* _insert_price_key replacing the stored record on an equal score too
insert_price_key_ge(price_map, key, price_obj, score) ==
    IF key \notin DOMAIN price_map \/ score >= price_map[key]["_score"]
    THEN Put(price_map, key, price_obj @@ ("_score" :> score))
    ELSE price_map

\* _insert_price_key(price_map, key, price_obj, score)
insert_price_key(price_map, key, price_obj, score) ==
    IF key \notin DOMAIN price_map \/ score > price_map[key]["_score"]
    THEN Put(price_map, key, price_obj @@ ("_score" :> score))
    ELSE price_map

\* the body of "for nm in {name_norm_base, name_norm_raw}" for one nm
IndexUnderName(idx, nm, p, price_obj) ==
    LET pair == <<nm, p.num_norm>>
        pm1  == insert_price_key(idx.price_map, <<nm, p.set_norm, p.num_norm>>,
                                 price_obj, p.score)
        num_digits == digits_only(p.num_norm)
        pm2  == IF num_digits # <<>> /\ num_digits # p.num_norm
                THEN insert_price_key(pm1, <<nm, p.set_norm, num_digits>>,
                                      price_obj, p.score - 1)
                ELSE pm1
        old  == IF pair \in DOMAIN idx.by_name_num THEN idx.by_name_num[pair] ELSE <<>>
    IN [price_map |-> pm2,
        price_index |-> idx.price_index \cup {pair},
        by_name_num |-> Put(idx.by_name_num, pair, Append(old, <<p.set_norm, price_obj>>))]

\* one iteration of "for row in rows" of _load_price_data
IndexRow(idx, p, currency) ==
    IF p.skip THEN idx
    ELSE LET price_obj == [market |-> p.market, psa9 |-> p.psa9, psa10 |-> p.psa10,
                           currency |-> currency, source |-> "excel"]
             i1 == IndexUnderName(idx, p.name_norm_base, p, price_obj)
         IN IF p.name_norm_raw = p.name_norm_base THEN i1
            ELSE IndexUnderName(i1, p.name_norm_raw, p, price_obj)

\* The newest price file: whether _find_latest_price_file finds one, and its
\* rows, each given by its position in PriceRows.
NoFile == [present |-> FALSE, rows |-> <<>>]

FileOf(rows) == [present |-> TRUE, rows |-> rows]

\* the rows read from a file
RECURSIVE RowsAt(_)
RowsAt(ids) == IF ids = <<>> THEN <<>> ELSE <<PriceRows[Head(ids)]>> \o RowsAt(Tail(ids))

FileRows(file) == RowsAt(file.rows)

\* the loop "for row in rows" from row k on, over the index built so far
RECURSIVE IndexRowsFrom(_, _, _, _)
IndexRowsFrom(idx, file, k, currency) ==
    IF k > Len(file.rows) THEN idx
    ELSE IndexRowsFrom(IndexRow(idx, ParsedPriceRows[file.rows[k]], currency),
                       file, k + 1, currency)


\* the most rows of a price file
MaxRows == 2

\* whether row r is among the rows rs
HasRow(rs, r) == \E i \in 1..Len(rs) : rs[i] = r

\* the lists of rs each extended by one row of PriceRows that it does not hold
Extended(shorter) ==
    {Append(pr[1], pr[2]) :
        pr \in {x \in shorter \X (1..Len(PriceRows)) : ~HasRow(x[1], x[2])}}

\* every list of at most n different rows of PriceRows, in every order
RECURSIVE RowLists(_)
RowLists(n) ==
    IF n = 0 THEN {<<>>} ELSE RowLists(n - 1) \cup Extended(RowLists(n - 1))

\* _detect_currency_from_rows of every list of rows a file can hold, computed once
DetectedCurrency ==
    <<>> @@ [rs \in RowLists(MaxRows) |-> detect_currency_from_rows(RowsAt(rs))]

\* _load_price_data returning before the reset when it finds no file
load_price_data_late_reset(idx, file) ==
    IF ~file.present THEN idx
    ELSE IndexRowsFrom(EmptyIndex, file, 1, DetectedCurrency[file.rows])

\* _load_price_data without the reset of the three globals
load_price_data_keeping(idx, file) ==
    IF ~file.present THEN idx
    ELSE IndexRowsFrom(idx, file, 1, DetectedCurrency[file.rows])

\* _load_price_data over the globals idx: the three globals are reset, then the
\* rows of the file are indexed in file order; without a file the index stays empty.
load_price_data(idx, file) ==
    IF ~file.present THEN EmptyIndex
    ELSE IndexRowsFrom(EmptyIndex, file, 1, DetectedCurrency[file.rows])

(***************************************************************************)
(* data_loader.py: how _load_price_data reads the rows.  With pandas       *)
(* installed the rows come from read_csv(...).to_dict('records'), where an *)
(* empty cell is the float nan; without it (or when that read fails) they  *)
(* come from csv.DictReader, where an empty cell is the empty string.      *)
(* PriceRows above are rows as csv.DictReader yields them.                 *)
(***************************************************************************)
\* the two ways the rows are read (lines 448-469)
Readers == {"pandas", "csv"}

\* str(nan)
NanText == <<"n", "a", "n">>

\* the rows of the files whose build is followed row by row: two rows with
\* all three fields, then rows that lack a name, a set or a number
BuildRows ==
    <<[name |-> <<"P", "i", "k", "a">>, set |-> <<"B", "a", "s", "e", " ", "S", "e", "t">>,
       number |-> <<"4", "/", "1", "0", "2">>, raw |-> <<"1", "0">>, psa9 |-> <<>>, psa10 |-> <<>>],
      [name |-> <<"P", "i", "k", "a">>, set |-> <<"B", "a", "s", "e">>,
       number |-> <<"H", "4">>, raw |-> <<>>, psa9 |-> <<>>, psa10 |-> <<"7">>],
      [name |-> <<>>, set |-> <<"B", "a", "s", "e">>,
       number |-> <<"#", "4">>, raw |-> <<"2">>, psa9 |-> <<>>, psa10 |-> <<>>],
      [name |-> <<"P", "i", "k", "a">>, set |-> <<>>,
       number |-> <<"#", "4">>, raw |-> <<"2">>, psa9 |-> <<>>, psa10 |-> <<>>],
      [name |-> <<"P", "i", "k", "a">>, set |-> <<"B", "a", "s", "e">>,
       number |-> <<>>, raw |-> <<"2">>, psa9 |-> <<>>, psa10 |-> <<>>],
      [name |-> <<"#", "4">>, set |-> <<"B", "a", "s", "e">>,
       number |-> <<>>, raw |-> <<"2">>, psa9 |-> <<>>, psa10 |-> <<>>],
      [name |-> <<" ", " ">>, set |-> <<"B", "a", "s", "e">>,
       number |-> <<"#", "4">>, raw |-> <<"2">>, psa9 |-> <<>>, psa10 |-> <<>>]>>

\* "(row.get(name_k) or "").strip()" on a cell that pandas read: nan is true
\* and has no strip, so lines 490-491 raise AttributeError on an empty cell
StripRaises(reader, row) == reader = "pandas" /\ (row.name = <<>> \/ row.set = <<>>)

\* "str(row.get(num_k) or "")" (line 492): the text of nan for pandas' empty cell
NumberCell(reader, cell) == IF reader = "pandas" /\ cell = <<>> THEN NanText ELSE cell

\* the row as the rest of the loop body sees it; _parse_price takes nan, the
\* text "nan" and the empty string alike to None (lines 397-398)
RowAsRead(reader, row) == [row EXCEPT !.number = NumberCell(reader, row.number)]

\* the row as _detect_currency_from_rows prints it: an empty cell read by
\* pandas prints as nan
CellText(reader, cell) == IF reader = "pandas" /\ cell = <<>> THEN NanText ELSE cell

RowAsPrinted(reader, row) ==
    [f \in DOMAIN row |-> CellText(reader, row[f])]

RECURSIVE BuildRowsAt(_, _)
BuildRowsAt(reader, ids) ==
    IF ids = <<>> THEN <<>>
    ELSE <<RowAsPrinted(reader, BuildRows[Head(ids)])>> \o BuildRowsAt(reader, Tail(ids))

\* every list of one or two different rows of BuildRows
BuildLists ==
    {<<a>> : a \in 1..Len(BuildRows)}
    \cup {<<pr[1], pr[2]>> :
            pr \in {x \in (1..Len(BuildRows)) \X (1..Len(BuildRows)) : x[1] # x[2]}}

\* the currency of each of these files under each reader, computed once
BuildCurrency ==
    <<>> @@ [x \in Readers \X BuildLists |->
                detect_currency_from_rows(BuildRowsAt(x[1], x[2]))]

\* the parsed form of every row of BuildRows as each reader hands it over
ParsedBuildRows ==
    <<>> @@ [x \in Readers \X (1..Len(BuildRows)) |->
                ParsePriceRow(RowAsRead(x[1], BuildRows[x[2]]))]

(***************************************************************************)
(* data_loader.py: get_price_override and get_price_override_ex.           *)
(***************************************************************************)
\* the (name, set_name, number) arguments the lookups are called with
Queries ==
    <<[name |-> <<"P", "i", "k", "a">>,
       set |-> <<"B", "a", "s", "e", " ", "S", "e", "t">>, number |-> <<"4", "/", "1", "0", "2">>],
      [name |-> <<"P", "i", "k", "a">>,
       set |-> <<"B", "a", "s", "e", " ", "S", "e", "t">>, number |-> <<"4">>],
      [name |-> <<"P", "i", "k", "a", " ", "[", "H", "o", "l", "o", "]">>,
       set |-> <<"B", "a", "s", "e">>, number |-> <<"#", "4">>],
      [name |-> <<"P", "i", "k", "a">>,
       set |-> <<"B", "a", "s", "e">>, number |-> <<"H", "4">>],
      [name |-> <<"P", "i", "k", "a">>,
       set |-> <<"N", "e", "o", " ", "G", "y", "m">>, number |-> <<"4">>],
      [name |-> <<"P", "i", "k", "a">>,
       set |-> <<"G", "y", "m", " ", "N", "e", "o">>, number |-> <<"4">>],
      [name |-> <<"P", "i", "k", "a">>,
       set |-> <<"G", "y", "m", " ", "N", "e", "o">>, number |-> <<"H", "4">>],
      [name |-> <<"P", "i", "k", "a">>,
       set |-> <<"J", "u", "n", "g", "l", "e">>, number |-> <<"4">>],
      [name |-> <<"P", "i", "k", "a">>,
       set |-> <<"J", "u", "n", "g", "l", "e">>, number |-> <<"/", "1", "0", "2">>],
      [name |-> <<"M", "e", "w">>,
       set |-> <<"B", "a", "s", "e">>, number |-> <<"4">>]>>

\* the keys get_price_override derives from its arguments
QueryKeys(query) ==
    LET num_norm == normalize_number(query.number) IN
    [name_norm |-> name_norm(query.name),
     name_raw  |-> name_norm_raw(query.name),
     set_norm  |-> normalize_set(query.set),
     num_norm  |-> num_norm,
     num_digits |-> digits_only(num_norm)]

RECURSIVE AllQueryKeys(_)
AllQueryKeys(qs) ==
    IF qs = <<>> THEN <<>> ELSE <<QueryKeys(Head(qs))>> \o AllQueryKeys(Tail(qs))

\* the keys of every query of Queries, computed once
ParsedQueries == AllQueryKeys(Queries)

\* The order in which Python walks a set of two strings is the interpreter's:
\* an order says whether the name set and the number set are walked as written
\* below or reversed.
SetOrders == [nm : BOOLEAN, nn : BOOLEAN]

\* a two-element list without its duplicates, in the given direction
Walk(x, y, forward) ==
    IF x = y THEN <<x>> ELSE IF forward THEN <<x, y>> ELSE <<y, x>>

\* the elements of a sequence that are not the empty string
RECURSIVE NonEmpty(_)
NonEmpty(xs) ==
    IF xs = <<>> THEN <<>>
    ELSE (IF Head(xs) = <<>> THEN <<>> ELSE <<Head(xs)>>) \o NonEmpty(Tail(xs))

\* step 1 of get_price_override: the keys probed, in order
ExactKeys(k) ==
    LET nms == <<k.name_norm, k.name_raw>>
        nns == <<k.num_norm, k.num_digits>>
    IN [i \in 1..4 |-> <<nms[(i + 1) \div 2], k.set_norm, nns[2 - (i % 2)]>>]

\* the least position of a probed key with a non-empty number that is in the
\* map, 0 when none
FirstHit(hits) == IF hits = {} THEN 0 ELSE CHOOSE i \in hits : \A j \in hits : i <= j

HitsAmong(price_map, keys) ==
    {i \in 1..4 : keys[i][3] # <<>> /\ keys[i] \in DOMAIN price_map}

ExactHit(price_map, k) == FirstHit(HitsAmong(price_map, ExactKeys(k)))

\* step 2: the candidates (set_k, val) in the order the two loops visit them
RECURSIVE CandidatesOf(_, _, _)
CandidatesOf(by_name_num, nms, nns) ==
    IF nms = <<>> THEN <<>>
    ELSE LET RECURSIVE Inner(_)
             Inner(ns) ==
                 IF ns = <<>> THEN <<>>
                 ELSE (IF <<Head(nms), Head(ns)>> \in DOMAIN by_name_num
                       THEN by_name_num[<<Head(nms), Head(ns)>>] ELSE <<>>)
                      \o Inner(Tail(ns))
         IN Inner(nns) \o CandidatesOf(by_name_num, Tail(nms), nns)

FuzzyCandidates(by_name_num, k, ord) ==
    CandidatesOf(by_name_num,
                 Walk(k.name_norm, k.name_raw, ord.nm),
                 NonEmpty(Walk(k.num_norm, k.num_digits, ord.nn)))

\* _set_similarity of the set key of every query with the set key of every
\* row of PriceRows, computed once
SetSimilarities ==
    <<>> @@ [pair \in {ParsedQueries[q].set_norm : q \in 1..Len(Queries)}
                        \X {ParsedPriceRows[i].set_norm : i \in 1..Len(PriceRows)}
                |-> set_similarity(pair[1], pair[2])]

\* "score = _set_similarity(set_norm, set_k)"
SimilarityAt(pair) ==
    IF pair \in DOMAIN SetSimilarities THEN SetSimilarities[pair]
    ELSE set_similarity(pair[1], pair[2])

\* "if score > best_score: best_score = score; best = val" for one candidate
TakeBetter(acc, val, score) ==
    IF FracGT(score, acc.best_score) THEN [best |-> val, best_score |-> score] ELSE acc

\* the loop over the candidates from position i on
RECURSIVE BestFrom(_, _, _, _)
BestFrom(cands, i, set_norm, acc) ==
    IF i > Len(cands) THEN acc
    ELSE BestFrom(cands, i + 1, set_norm,
                  TakeBetter(acc, cands[i][2], SimilarityAt(<<set_norm, cands[i][1]>>)))

\* an acceptance threshold of 0.05
LowThreshold == [num |-> 5, den |-> 100]

\* the acceptance threshold 0.72, as a fraction
FuzzyThreshold == [num |-> 72, den |-> 100]

\* "if best and best_score >= 0.72: return best", else None
AcceptBest(b) ==
    IF b.best # None /\ FracGE(b.best_score, FuzzyThreshold) THEN b.best ELSE None

\* step 2 of get_price_override
FuzzyMatch(idx, k, ord) ==
    AcceptBest(BestFrom(FuzzyCandidates(idx.by_name_num, k, ord), 1, k.set_norm,
                        [best |-> None, best_score |-> [num |-> 0, den |-> 1]]))

\* step 1, given the position hit of the first probed key found, then step 2
ExactOrFuzzy(idx, k, ord, hit) ==
    IF hit # 0 THEN idx.price_map[ExactKeys(k)[hit]] ELSE FuzzyMatch(idx, k, ord)

\* get_price_override on the keys k of its arguments, against an index
get_price_override(idx, k, ord) == ExactOrFuzzy(idx, k, ord, ExactHit(idx.price_map, k))

\* whether the index holds any row of this (name, number), whatever its set
exists_any(price_index, k) ==
    \E nm \in {k.name_norm, k.name_raw}, nn \in {k.num_norm, k.num_digits} \ {<<>>} :
        <<nm, nn>> \in price_index

\* the (value, reason) pair get_price_override_ex makes of the value found
WithReason(val, any) ==
    IF val # None THEN <<val, "found">>
    ELSE IF any THEN <<None, "unmatched_set">>
    ELSE <<None, "absent_in_csv">>

\* get_price_override_ex: the (value, reason) pair
get_price_override_ex(idx, k, ord) ==
    WithReason(get_price_override(idx, k, ord), exists_any(idx.price_index, k))

(***************************************************************************)
(* scraper.py: from the rows of a product file to the inventory.           *)
(***************************************************************************)
\* Python's None where a str is expected (a cell that a row does not have, the
\* result of _pick without a match)
Missing == <<"None">>

\* price_float None; the price_float of the model is a number of cents, the
\* cells of the model having at most two digits after the decimal comma
NoFloat == -1

\* "x or ''"
OrEmpty(v) == IF v = Missing THEN <<>> ELSE v

\* the first position of s that holds a character of cs, 0 when there is none
FindChar(s, cs) ==
    IF \E i \in 1..Len(s) : s[i] \in cs
    THEN CHOOSE i \in 1..Len(s) : s[i] \in cs /\ \A j \in 1..(i - 1) : s[j] \notin cs
    ELSE 0

\* the last position of s that holds a character of cs, 0 when there is none
FindLastChar(s, cs) ==
    IF \E i \in 1..Len(s) : s[i] \in cs
    THEN CHOOSE i \in 1..Len(s) : s[i] \in cs /\ \A j \in (i + 1)..Len(s) : s[j] \notin cs
    ELSE 0

\* s up to the position before d, the whole of s when d = 0
Before(s, d) == IF d = 0 THEN s ELSE Take(s, d - 1)

\* s with every character c replaced by the text r
RECURSIVE ReplaceChar(_, _, _)
ReplaceChar(s, c, r) ==
    IF s = <<>> THEN <<>>
    ELSE (IF Head(s) = c THEN r ELSE <<Head(s)>>) \o ReplaceChar(Tail(s), c, r)

\* the characters of s that are in the set keep
RECURSIVE KeepChars(_, _)
KeepChars(s, keep) ==
    IF s = <<>> THEN <<>>
    ELSE (IF Head(s) \in keep THEN <<Head(s)>> ELSE <<>>) \o KeepChars(Tail(s), keep)

\* a row as csv.DictReader yields it: the cells zipped with the headers of the
\* file, in column order; a row shorter than the header has None cells
RowDict(headers, cells) ==
    [i \in 1..Len(headers) |-> [key |-> headers[i], val |-> cells[i]]]

\* row.get(key)
RowGet(row, key) ==
    IF \E i \in 1..Len(row) : row[i].key = key
    THEN row[CHOOSE i \in 1..Len(row) : row[i].key = key].val
    ELSE Missing

\* str(k).strip().lower() == str(c).strip().lower()
HeaderIs(k, c) == Lower(Strip(k)) = Lower(Strip(c))

\* the first key of the row that matches candidate c
FirstHeader(row, c) ==
    row[CHOOSE i \in 1..Len(row) :
            HeaderIs(row[i].key, c) /\ \A j \in 1..(i - 1) : ~HeaderIs(row[j].key, c)].key

\* _pick(row, *cands): the key of the first candidate that some key matches
RECURSIVE pick(_, _)
pick(row, cands) ==
    IF cands = <<>> THEN Missing
    ELSE IF \E i \in 1..Len(row) : HeaderIs(row[i].key, Head(cands))
         THEN FirstHeader(row, Head(cands))
         ELSE pick(row, Tail(cands))

TitleHeaders == <<<<"t", "i", "t", "l", "e">>, <<"p", "r", "o", "d", "u", "c", "t">>, <<"n", "a", "m", "e">>, <<"i", "t", "e", "m", "_", "t", "i", "t", "l", "e">>>>

PriceHeaders == <<<<"p", "r", "i", "c", "e">>, <<"c", "u", "r", "r", "e", "n", "t", "_", "p", "r", "i", "c", "e">>, <<"a", "m", "o", "u", "n", "t">>, <<"l", "o", "w", "e", "s", "t", "_", "p", "r", "i", "c", "e">>>>

ImageHeaders == <<<<"i", "m", "a", "g", "e", "_", "u", "r", "l">>, <<"i", "m", "a", "g", "e">>, <<"i", "m", "g">>, <<"t", "h", "u", "m", "b", "n", "a", "i", "l">>>>

UrlHeaders == <<<<"u", "r", "l">>, <<"l", "i", "n", "k">>, <<"p", "e", "r", "m", "a", "l", "i", "n", "k">>, <<"p", "r", "o", "d", "u", "c", "t", "_", "u", "r", "l">>>>

SourceHeaders == <<<<"s", "o", "u", "r", "c", "e">>, <<"s", "i", "t", "e">>, <<"p", "l", "a", "t", "f", "o", "r", "m">>, <<"s", "t", "o", "r", "e">>, <<"w", "e", "b", "s", "i", "t", "e">>>>

\* float(digits): digits and at most one point, at least one digit; in cents
FloatOfParts(whole, frac) ==
    100 * DigitsValue(whole) + DigitsValue(Take(frac \o <<"0", "0">>, 2))

FloatOfDigits(digits, point) ==
    IF digits = <<>> THEN NoFloat
    ELSE IF KeepChars(digits, Digits) = <<>> THEN NoFloat
    ELSE IF Len(KeepChars(digits, {"."})) > 1 THEN NoFloat
    ELSE IF point = 0 THEN FloatOfParts(digits, <<>>)
    ELSE FloatOfParts(Take(digits, point - 1), Drop(digits, point + 1))

FloatOfText(digits) == FloatOfDigits(digits, FindChar(digits, {"."}))

\* _price_text_to_float(val)
price_text_to_float(val) ==
    IF val = Missing THEN NoFloat
    ELSE FloatOfText(KeepChars(ReplaceChar(RemoveChars(val, {"."}), ",", <<".">>),
                               Digits \cup {"."}))

\* str(n) of a natural number
RECURSIVE IntText(_)
IntText(n) == IF n < 10 THEN <<ToString(n)>> ELSE IntText(n \div 10) \o <<ToString(n % 10)>>

\* the last k digits of n, zero-filled
RECURSIVE PaddedText(_, _)
PaddedText(n, k) ==
    IF k = 0 THEN <<>> ELSE PaddedText(n \div 10, k - 1) \o <<ToString(n % 10)>>

\* f"{n:,}" with the comma already turned into a point
RECURSIVE GroupedText(_)
GroupedText(n) ==
    IF n < 1000 THEN IntText(n)
    ELSE GroupedText(n \div 1000) \o <<".">> \o PaddedText(n % 1000, 3)

\* _format_price_text(v) of a price_float that is not None
format_price_text(cents) ==
    <<"euro_sign">> \o GroupedText(cents \div 100) \o <<",">> \o PaddedText(cents % 100, 2)

\* price_text of _normalize_row (line 129)
PriceTextOf(price_raw, price_float) ==
    IF price_float # NoFloat THEN format_price_text(price_float)
    ELSE Strip(OrEmpty(price_raw))

Letters == LowerLetters \cup {UpperSeq[i] : i \in 1..Len(UpperSeq)}

SchemeChars == Letters \cup Digits \cup {"+", "-", "."}

\* urlsplit: the position of the ':' that ends the scheme, 0 without a scheme
SchemeEndAt(u, i) ==
    IF i > 1 /\ u[1] \in Letters /\ \A k \in 1..(i - 1) : u[k] \in SchemeChars THEN i ELSE 0

SchemeEnd(u) == SchemeEndAt(u, FindChar(u, {":"}))

SchemeOf(u) == Lower(Take(u, SchemeEnd(u) - 1))

\* the url after its scheme
AfterScheme(u) == Drop(u, SchemeEnd(u) + 1)

HasNetloc(r) == StartsWithAt(r, 1, <<"/", "/">>)

\* urlsplit on the text after the scheme: the netloc runs from "//" to the
\* first of "/", "?" and "#"
NetlocIn(r) ==
    IF HasNetloc(r) THEN Before(Drop(r, 3), FindChar(Drop(r, 3), {"/", "?", "#"})) ELSE <<>>

AfterNetloc(r) ==
    IF HasNetloc(r) THEN Drop(r, 3 + Len(NetlocIn(r))) ELSE r

\* urlparse(u).netloc
netloc(u) == NetlocIn(AfterScheme(u))

\* the schemes of urllib.parse.uses_params that the model's urls can carry
UsesParams == {<<>>, <<"h", "t", "t", "p">>, <<"h", "t", "t", "p", "s">>, <<"f", "t", "p">>}

\* _splitparams: the path without the ";params" of its last segment
ParamsAt(path, slash) ==
    IF FindChar(Drop(path, slash + 1), {";"}) = 0 THEN 0
    ELSE slash + FindChar(Drop(path, slash + 1), {";"})

SplitParams(path) == Before(path, ParamsAt(path, FindLastChar(path, {"/"})))

PathIn(scheme, r) ==
    IF scheme \in UsesParams
    THEN SplitParams(Before(r, FindChar(r, {"?", "#"})))
    ELSE Before(r, FindChar(r, {"?", "#"}))

\* urlparse(u).path
url_path(u) == PathIn(SchemeOf(u), AfterNetloc(AfterScheme(u)))

\* _infer_source(url, fallback)
SourceOfHost(host, fallback) ==
    IF Contains(host, <<"s", "k", "r", "o", "u", "t", "z">>) THEN <<"s", "k", "r", "o", "u", "t", "z">>
    ELSE IF Contains(host, <<"b", "e", "s", "t", "p", "r", "i", "c", "e">>) THEN <<"b", "e", "s", "t", "p", "r", "i", "c", "e">>
    ELSE fallback

infer_source(url, fallback) == SourceOfHost(Lower(netloc(url)), fallback)

\* _norm_title(t); casefold is lower on the characters of the model
norm_title(t) ==
    Lower(Strip(CollapseSpaces(RemoveChars(t, {"tm_sign", "reg_sign"}))))

RECURSIVE RStripSlash(_)
RStripSlash(s) ==
    IF s # <<>> /\ s[Len(s)] = "/" THEN RStripSlash(Take(s, Len(s) - 1)) ELSE s

\* host[4:] if host.startswith("www.")
WithoutWww(host) == IF StartsWithAt(host, 1, <<"w", "w", "w", ".">>) THEN Drop(host, 5) ELSE host

CanonOfStripped(u) ==
    WithoutWww(Lower(netloc(u))) \o RStripSlash(ReplaceTable(url_path(u), PercentEscapes))

\* _canon_url(u)
canon_url(u) == IF u = <<>> \/ u = Missing THEN <<>> ELSE CanonOfStripped(Strip(u))

\* "(row.get(k) or '').strip() if k else ''"
StrippedCell(row, k) == IF k = Missing THEN <<>> ELSE Strip(OrEmpty(RowGet(row, k)))

\* "row.get(price_k)": _pick's None is looked up as a key and gives None
CellOf(row, k) == IF k = Missing THEN Missing ELSE RowGet(row, k)

\* lines 131-135: the source cell, else the source inferred from the url; the
\* prefixes "best" and "skr" are completed
FullSource(src) ==
    IF StartsWithAt(src, 1, <<"s", "k", "r">>) THEN <<"s", "k", "r", "o", "u", "t", "z">>
    ELSE IF StartsWithAt(src, 1, <<"b", "e", "s", "t">>) THEN <<"b", "e", "s", "t", "p", "r", "i", "c", "e">>
    ELSE src

SourceOf(cell, url) ==
    FullSource(IF cell = <<>> THEN infer_source(url, <<"b", "e", "s", "t", "p", "r", "i", "c", "e">>) ELSE cell)

\* _normalize_row's None
NoItem == [none |-> TRUE]

ItemOf(title, url, image, price_raw, price_float, src) ==
    IF title = <<>> \/ url = <<>> THEN NoItem
    ELSE [title |-> title, image_url |-> image,
          price |-> PriceTextOf(price_raw, price_float), price_float |-> price_float,
          url |-> url, source |-> src,
          k_title |-> norm_title(title), k_url |-> canon_url(url)]

ItemOfCells(title, url, image, price_raw, src_cell) ==
    ItemOf(title, url, image, price_raw, price_text_to_float(price_raw), SourceOf(src_cell, url))

\* _normalize_row(row)
normalize_row(row) ==
    ItemOfCells(StrippedCell(row, pick(row, TitleHeaders)),
                StrippedCell(row, pick(row, UrlHeaders)),
                StrippedCell(row, pick(row, ImageHeaders)),
                CellOf(row, pick(row, PriceHeaders)),
                Lower(StrippedCell(row, pick(row, SourceHeaders))))


\* the truth of "r.get(a) or r.get(b) or ..." over the keys ks, spelled exactly
RECURSIVE AnyCell(_, _)
AnyCell(row, ks) ==
    IF ks = <<>> THEN FALSE
    ELSE IF OrEmpty(RowGet(row, Head(ks))) # <<>> THEN TRUE
    ELSE AnyCell(row, Tail(ks))

\* the keys of the two tests of lines 181 and 184, in their order
TitleKeys == <<<<"i", "t", "e", "m", "_", "t", "i", "t", "l", "e">>, <<"t", "i", "t", "l", "e">>, <<"p", "r", "o", "d", "u", "c", "t">>, <<"n", "a", "m", "e">>>>

UrlKeys == <<<<"p", "r", "o", "d", "u", "c", "t", "_", "u", "r", "l">>, <<"u", "r", "l">>, <<"l", "i", "n", "k">>, <<"p", "e", "r", "m", "a", "l", "i", "n", "k">>>>

\* the loop of lines 180-189 from row i on: the rows with a title cell and a
\* url cell that _normalize_row accepts, as items
KeptItem(it) == IF it = NoItem THEN <<>> ELSE <<it>>

ItemOfRow(row) ==
    IF ~AnyCell(row, TitleKeys) THEN <<>>
    ELSE IF ~AnyCell(row, UrlKeys) THEN <<>>
    ELSE KeptItem(normalize_row(row))

\* The rows that product files are made of: the cells of the title, price, url,
\* image and source columns.
ProductRows ==
    <<<<<<"P", "i", "k", "a", " ", "B", "o", "x">>, <<"euro_sign", "1", "0", ",", "0", "0">>, <<"h", "t", "t", "p", "s", ":", "/", "/", "w", "w", "w", ".", "s", "h", "o", "p", ".", "g", "r", "/", "p", "/", "1">>, <<>>, <<>>>>,
      <<<<" ", "p", "i", "k", "a", " ", " ", "b", "o", "x", "tm_sign">>, <<"1", "0">>, <<"h", "t", "t", "p", "s", ":", "/", "/", "S", "H", "O", "P", ".", "g", "r", "/", "p", "/", "1", "/", "?", "r", "e", "f", "=", "2">>, <<"i", ".", "p", "n", "g">>, <<>>>>,
      <<<<"P", "i", "k", "a", " ", "B", "o", "x">>, <<"1", "2", ",", "5">>, <<"h", "t", "t", "p", "s", ":", "/", "/", "w", "w", "w", ".", "s", "h", "o", "p", ".", "g", "r", "/", "p", "/", "1">>, <<>>, <<"B", "e", "s", "t">>>>,
      <<<<"E", "l", "i", "t", "e", " ", "T", "i", "n">>, <<"1", ".", "2", "3", "4", ",", "5", "6">>, <<"h", "t", "t", "p", ":", "/", "/", "s", "k", "r", "o", "u", "t", "z", ".", "g", "r", "/", "s", "/", "7", ";", "v", "=", "1", "#", "t", "o", "p">>, <<>>, <<>>>>,
      <<<<"E", "l", "i", "t", "e", " ", "T", "i", "n">>, <<"a", "s", "k">>, <<"s", "h", "o", "p", ".", "g", "r", "/", "t", "i", "n">>, <<>>, <<"s", "k", "r">>>>,
      <<<<>>, <<"3">>, <<"h", "t", "t", "p", "s", ":", "/", "/", "s", "h", "o", "p", ".", "g", "r", "/", "p", "/", "9">>, <<>>, <<>>>>,
      <<<<"M", "e", "w", " ", "D", "e", "c", "k">>, <<>>, <<>>, <<>>, <<>>>>,
      <<<<"F", "r", "e", "e", " ", "T", "i", "n">>, <<"0">>, <<"h", "t", "t", "p", "s", ":", "/", "/", "s", "h", "o", "p", ".", "g", "r", "/", "p", "/", "2">>, <<>>, <<>>>>>>

\* The header lines of product files, naming these five columns.
ProductHeaders ==
    <<<<<<"t", "i", "t", "l", "e">>, <<"p", "r", "i", "c", "e">>, <<"u", "r", "l">>, <<"i", "m", "a", "g", "e", "_", "u", "r", "l">>, <<"s", "o", "u", "r", "c", "e">>>>,
      <<<<"T", "i", "t", "l", "e">>, <<"P", "r", "i", "c", "e">>, <<"U", "R", "L">>, <<"I", "m", "a", "g", "e">>, <<"S", "i", "t", "e">>>>,
      <<<<"n", "a", "m", "e">>, <<"a", "m", "o", "u", "n", "t">>, <<"l", "i", "n", "k">>, <<"i", "m", "g">>, <<"n", "o", "t", "e">>>>>>

\* the same for every row of ProductRows under every header line of
\* ProductHeaders, computed once
ItemsOfRows ==
    <<>> @@ [row \in {RowDict(ProductHeaders[x[1]], ProductRows[x[2]]) :
                        x \in (1..Len(ProductHeaders)) \X (1..Len(ProductRows))}
                |-> ItemOfRow(row)]

ItemOfRowAt(row) == IF row \in DOMAIN ItemsOfRows THEN ItemsOfRows[row] ELSE ItemOfRow(row)

RECURSIVE ItemsFrom(_, _)
ItemsFrom(rows, i) ==
    IF i > Len(rows) THEN <<>>
    ELSE ItemOfRowAt(rows[i]) \o ItemsFrom(rows, i + 1)

\* a key that leaves the price string out
DedupKeyWithoutPrice(it) == <<it.k_title, it.k_url>>

\* key = (it["_k_title"], it["_k_url"], it["price"])
DedupKey(it) == <<it.k_title, it.k_url, it.price>>

\* it.pop("_k_title"); it.pop("_k_url")
Popped(it) == [f \in (DOMAIN it) \ {"k_title", "k_url"} |-> it[f]]

\* the loop of lines 194-201 from item i on, seen being the keys met so far
RECURSIVE Deduped(_, _, _)
Deduped(items, i, seen) ==
    IF i > Len(items) THEN <<>>
    ELSE IF DedupKey(items[i]) \in seen THEN Deduped(items, i + 1, seen)
    ELSE <<Popped(items[i])>> \o Deduped(items, i + 1, seen \cup {DedupKey(items[i])})

\* scraper.DEDUP
DEDUP == TRUE

RECURSIVE PoppedAll(_, _)
PoppedAll(items, i) ==
    IF i > Len(items) THEN <<>> ELSE <<Popped(items[i])>> \o PoppedAll(items, i + 1)

DedupedOrAll(items) == IF DEDUP THEN Deduped(items, 1, {}) ELSE PoppedAll(items, 1)

\* _load_items_from_file on the rows that _read_rows returns
load_items_from_file(rows) == DedupedOrAll(ItemsFrom(rows, 1))

\* a product file: its header line and its rows, as positions in ProductHeaders
\* and in ProductRows
ProductFile(h, ids) == [header |-> h, rows |-> ids]

\* _read_rows(path) of a csv file
RECURSIVE DictsOf(_, _, _)
DictsOf(h, ids, i) ==
    IF i > Len(ids) THEN <<>>
    ELSE <<RowDict(ProductHeaders[h], ProductRows[ids[i]])>> \o DictsOf(h, ids, i + 1)

read_rows(file) == DictsOf(file.header, file.rows, 1)


(***************************************************************************)
(* data_loader.py: the card catalog and search_local_cards.                *)
(***************************************************************************)
\* The cards the catalog is made of: the id, the id and the name of the set,
\* the name, the number and the rarity of each (an empty rarity stands for a
\* missing one).
CardPool ==
    <<[id |-> "base1-58", set_id |-> "base1",
       name |-> <<"P", "i", "k", "a", "c", "h", "u">>,
       set |-> <<"B", "a", "s", "e", " ", "S", "e", "t">>,
       number |-> <<"5", "8", "/", "1", "0", "2">>, rarity |-> <<"C", "o", "m", "m", "o", "n">>],
      [id |-> "base1-104", set_id |-> "base1",
       name |-> <<"P", "i", "k", "a", "c", "h", "u">>,
       set |-> <<"B", "a", "s", "e", " ", "S", "e", "t">>,
       number |-> <<"4">>, rarity |-> <<"R", "a", "r", "e", " ", "H", "o", "l", "o">>],
      [id |-> "base2-60", set_id |-> "base2",
       name |-> <<"P", "i", "k", "a", "c", "h", "u">>,
       set |-> <<"J", "u", "n", "g", "l", "e">>,
       number |-> <<"6", "0">>, rarity |-> <<"R", "a", "r", "e">>],
      [id |-> "base1-4", set_id |-> "base1",
       name |-> <<"C", "h", "a", "r", "i", "z", "a", "r", "d">>,
       set |-> <<"B", "a", "s", "e", " ", "S", "e", "t">>,
       number |-> <<"4", "/", "1", "0", "2">>,
       rarity |-> <<"R", "a", "r", "e", " ", "U", "l", "t", "r", "a">>],
      [id |-> "base5-83", set_id |-> "base5",
       name |-> <<"D", "a", "r", "k", " ", "R", "a", "i", "c", "h", "u">>,
       set |-> <<"T", "e", "a", "m", " ", "R", "o", "c", "k", "e", "t">>,
       number |-> <<"8", "3">>, rarity |-> <<>>],
      [id |-> "base2-H4", set_id |-> "base2",
       name |-> <<"P", "i", "k", "a", "c", "h", "u">>,
       set |-> <<"J", "u", "n", "g", "l", "e">>,
       number |-> <<"H", "4">>, rarity |-> <<"R", "a", "r", "e", " ", "H", "o", "l", "o">>],
      [id |-> "base1-14", set_id |-> "base1",
       name |-> <<"R", "a", "i", "c", "h", "u">>,
       set |-> <<"B", "a", "s", "e", " ", "S", "e", "t">>,
       number |-> <<"1", "4", "/", "1", "0", "2">>,
       rarity |-> <<"R", "a", "r", "e", " ", "H", "o", "l", "o">>],
      [id |-> "base1-1", set_id |-> "base1",
       name |-> <<"A", "l", "a", "k", "a", "z", "a", "m">>,
       set |-> <<"B", "a", "s", "e", " ", "S", "e", "t">>,
       number |-> <<"1", "/", "1", "0", "2">>,
       rarity |-> <<"R", "a", "r", "e", " ", "H", "o", "l", "o">>]>>

\* lines 202-205: the four normalized fields load_data gives a card
NormalizedCard(card) ==
    [normalized_name |-> name_norm(card.name),
     normalized_set |-> normalize_set(card.set),
     normalized_number_digits |-> digits_only(normalize_number(card.number)),
     rarity |-> card.rarity]

\* the cards of CardPool as load_data keeps them, computed once
LoadedCards == <<>> @@ [c \in 1..Len(CardPool) |-> NormalizedCard(CardPool[c])]

\* the queries search_local_cards is called with
SearchQueries ==
    <<<<"p", "i", "k", "a", "c", "h", "u">>,
      <<"p", "i", "k", "a", " ", "5", "8">>,
      <<"4">>,
      <<"z", "z", "z", " ", "4">>,
      <<"B", "a", "s", "e", " ", "4">>,
      <<"c", "h", "u">>,
      <<"r", "a", "i", "c", "h", "u", " ", "#", "8", "3">>,
      <<"!", "!">>,
      <<>>,
      <<"p", "i", "k", "a", "c", "h", "u", " ", "j", "u", "n", "g", "l", "e", " ", "6", "-", "0">>>>

\* re.sub(r'\d+', ' ', query): every run of digits becomes one space
RECURSIVE DigitRunsToSpace(_)
DigitRunsToSpace(s) ==
    IF s = <<>> THEN <<>>
    ELSE IF Head(s) \notin Digits THEN <<Head(s)>> \o DigitRunsToSpace(Tail(s))
    ELSE IF Len(s) > 1 /\ s[2] \in Digits THEN DigitRunsToSpace(Tail(s))
    ELSE <<" ">> \o DigitRunsToSpace(Tail(s))

\* lines 226-228: the digits and the text tokens of a query
ParsedQuery(query) ==
    [search_num_digits |-> KeepChars(query, Digits),
     search_tokens |-> token_set(tokenize(DigitRunsToSpace(query)))]

\* the same for every query of SearchQueries, computed once
ParsedSearchQueries == <<>> @@ [q \in 1..Len(SearchQueries) |-> ParsedQuery(SearchQueries[q])]

\* lines 245-251: how many search tokens are part of some token of the card
text_match_count(search_tokens, card_all_text_tokens) ==
    Cardinality({s \in search_tokens : \E c \in card_all_text_tokens : Contains(c, s)})

\* lines 278-282
tie_breaker(rarity) ==
    IF Contains(Lower(rarity), <<"u", "l", "t", "r", "a">>) THEN 3
    ELSE IF Contains(Lower(rarity), <<"h", "o", "l", "o">>) THEN 2
    ELSE IF Contains(Lower(rarity), <<"r", "a", "r", "e">>) THEN 1
    ELSE 0

\* the bonus of line 270 counted for every card
number_bonus_always(search_num_digits, card_num_digits) == 50

\* lines 269-270
number_bonus(search_num_digits, card_num_digits) ==
    IF search_num_digits # <<>> /\ card_num_digits = search_num_digits THEN 50 ELSE 0

\* lines 258-274 for a card that the test of line 254 lets through
ScoreOfTokens(search_tokens, name_tokens, set_tokens, count, bonus) ==
    50 * count
    + 30 * Cardinality(search_tokens \cap name_tokens)
    + 20 * Cardinality(search_tokens \cap set_tokens)
    + bonus
    - 5 * Cardinality(name_tokens \ search_tokens)

\* the test of line 254 answering that no card is skipped
skips_card_never(search_tokens, count) == FALSE

\* "if search_tokens and text_match_count == 0: continue"
skips_card(search_tokens, count) == search_tokens # {} /\ count = 0

\* one turn of the loop of lines 235-283: whether the card is skipped by the
\* test of line 254, its score and its tie-breaker
ScoredWith(q, card, name_tokens, set_tokens, count) ==
    [skipped |-> skips_card(q.search_tokens, count),
     score |-> ScoreOfTokens(q.search_tokens, name_tokens, set_tokens, count,
                             number_bonus(q.search_num_digits, card.normalized_number_digits)),
     tie_breaker |-> tie_breaker(card.rarity)]

ScoredOn(q, card, name_tokens, set_tokens) ==
    ScoredWith(q, card, name_tokens, set_tokens,
               text_match_count(q.search_tokens, name_tokens \cup set_tokens))

Scored(q, card) ==
    ScoredOn(q, card, token_set(card.normalized_name), token_set(card.normalized_set))

\* the same for every query and every card, computed once
CardScores ==
    <<>> @@ [x \in (1..Len(SearchQueries)) \X (1..Len(CardPool)) |->
                Scored(ParsedSearchQueries[x[1]], LoadedCards[x[2]])]

\* whether the turn appends the card to results_with_scores (lines 254, 276)
Appended(sc) == ~sc.skipped /\ sc.score > 0

\* results_with_scores after the loop over the cards from position i on: the
\* cards appended, in catalog order
RECURSIVE ResultsWithScores(_, _, _)
ResultsWithScores(q, cards, i) ==
    IF i > Len(cards) THEN <<>>
    ELSE (IF Appended(CardScores[<<q, cards[i]>>]) THEN <<cards[i]>> ELSE <<>>)
         \o ResultsWithScores(q, cards, i + 1)

\* a sort key that leaves the tie-breaker out
KeyGreaterByScore(q, a, b) == CardScores[<<q, a>>].score > CardScores[<<q, b>>].score

\* the sort key (score, tie_breaker) of card a is greater than that of card b
KeyGreater(q, a, b) ==
    \/ CardScores[<<q, a>>].score > CardScores[<<q, b>>].score
    \/ /\ CardScores[<<q, a>>].score = CardScores[<<q, b>>].score
       /\ CardScores[<<q, a>>].tie_breaker > CardScores[<<q, b>>].tie_breaker

\* a card put into a list sorted downwards, behind the cards of an equal key
RECURSIVE InsertDown(_, _, _)
InsertDown(q, sorted, c) ==
    IF sorted = <<>> THEN <<c>>
    ELSE IF KeyGreater(q, c, Head(sorted)) THEN <<c>> \o sorted
    ELSE <<Head(sorted)>> \o InsertDown(q, Tail(sorted), c)

\* list.sort(key=..., reverse=True): stable, cards of equal keys keep their order
RECURSIVE SortedDown(_, _)
SortedDown(q, cards) ==
    IF cards = <<>> THEN <<>>
    ELSE InsertDown(q, SortedDown(q, Take(cards, Len(cards) - 1)), cards[Len(cards)])

\* search_local_cards(query, limit) over the catalog cards, query being a
\* position in SearchQueries; the cards returned, as positions in CardPool
search_local_cards(q, limit, cards) ==
    IF SearchQueries[q] = <<>> THEN <<>>
    ELSE IF /\ ParsedSearchQueries[q].search_tokens = {}
            /\ ParsedSearchQueries[q].search_num_digits = <<>> THEN <<>>
    ELSE Take(SortedDown(q, ResultsWithScores(q, cards, 1)), limit)

(***************************************************************************)
(* scraper.py: the URLs of product rows in several spellings.              *)
(***************************************************************************)
\* str.upper() on one character
UpperChar(c) ==
    IF \E i \in 1..Len(LowerSeq) : LowerSeq[i] = c
    THEN UpperSeq[CHOOSE i \in 1..Len(LowerSeq) : LowerSeq[i] = c]
    ELSE c

Upper(s) == SubSeq([i \in 1..Len(s) |-> UpperChar(s[i])], 1, Len(s))

\* URLs as product files hold them: scheme, host and path
BaseUrls ==
    <<[scheme |-> <<"h", "t", "t", "p", "s">>, host |-> <<"s", "h", "o", "p", ".", "g", "r">>,
       path |-> <<"/", "p", "/", "1">>],
      [scheme |-> <<"h", "t", "t", "p">>,
       host |-> <<"s", "k", "r", "o", "u", "t", "z", ".", "g", "r">>,
       path |-> <<"/", "s", "/", "7", ";", "v", "=", "1">>],
      [scheme |-> <<"h", "t", "t", "p", "s">>, host |-> <<"s", "h", "o", "p", ".", "g", "r">>,
       path |-> <<>>],
      [scheme |-> <<"h", "t", "t", "p", "s">>,
       host |-> <<"e", "x", "a", "m", "p", "l", "e", ".", "c", "o", "m">>,
       path |-> <<"/", "I", "t", "e", "m", "%", "2", "0", "x">>]>>

\* the ways a URL is spelled: the host in capitals, "www." before the host, a
\* slash after the path, a query string, a fragment
Spellings == [upper : BOOLEAN, www : BOOLEAN, slash : BOOLEAN, query : BOOLEAN, fragment : BOOLEAN]

PlainSpelling ==
    [upper |-> FALSE, www |-> FALSE, slash |-> FALSE, query |-> FALSE, fragment |-> FALSE]

\* the text of a URL in one spelling
HostSpelled(host, v) ==
    (IF v.www THEN <<"w", "w", "w", ".">> ELSE <<>>) \o (IF v.upper THEN Upper(host) ELSE host)

TailSpelled(v) ==
    (IF v.slash THEN <<"/">> ELSE <<>>)
    \o (IF v.query THEN <<"?", "u", "t", "m", "=", "1">> ELSE <<>>)
    \o (IF v.fragment THEN <<"#", "t", "o", "p">> ELSE <<>>)

UrlSpelled(base, v) ==
    base.scheme \o <<":", "/", "/">> \o HostSpelled(base.host, v) \o base.path \o TailSpelled(v)

\* _canon_url of every URL of BaseUrls in every spelling, computed once
CanonUrls ==
    <<>> @@ [x \in (1..Len(BaseUrls)) \X Spellings |-> canon_url(UrlSpelled(BaseUrls[x[1]], x[2]))]

\* a product row with the title and the price of the first row of
\* ProductRows and the given URL, under the first header line
RowWithUrl(u) ==
    RowDict(ProductHeaders[1], <<ProductRows[1][1], ProductRows[1][2], u, <<>>, <<>>>>)

\* _load_items_from_file of the two rows with these URLs
ItemsOfUrls(ua, ub) == load_items_from_file(<<RowWithUrl(ua), RowWithUrl(ub)>>)

(***************************************************************************)
(* scraper_pokemon.py: _fetch_json and API_CACHE.  Times are whole         *)
(* seconds.  get_card_details calls _fetch_json with the URL of one card   *)
(* and no params; Flask serves each request on a thread of its own, so     *)
(* calls run side by side.                                                 *)
(***************************************************************************)
\* API_TTL = 600  # 10 minutes
API_TTL == 600

\* BASE_URL = "https://api.pokemontcg.io/v2"
BASE_URL ==
    <<"h","t","t","p","s",":","/","/","a","p","i",".","p","o","k","e","m","o","n",
      "t","c","g",".","i","o","/","v","2">>

\* f"{BASE_URL}/cards/{card_id}"
CardUrl(card_id) == BASE_URL \o <<"/","c","a","r","d","s","/">> \o card_id

\* the URLs that are fetched: those of the cards base1-4 and xy1-1
FetchUrls == {CardUrl(<<"b","a","s","e","1","-","4">>), CardUrl(<<"x","y","1","-","1">>)}

\* the params that are passed: get_card_details passes none.  A dict is the
\* list of its items
FetchParams == {None}

\* repr of a str without quotes in it
ReprStr(s) == <<"'">> \o s \o <<"'">>

\* the items of a dict as str(dict) prints them, from the i-th on
RECURSIVE ReprItems(_, _)
ReprItems(d, i) ==
    IF i > Len(d) THEN <<>>
    ELSE (IF i > 1 THEN <<",", " ">> ELSE <<>>)
         \o ReprStr(d[i].key) \o <<":", " ">> \o ReprStr(d[i].value)
         \o ReprItems(d, i + 1)

\* str(params)
StrOfParams(params) ==
    IF params = None THEN <<"N","o","n","e">>
    ELSE <<"{">> \o ReprItems(params.items, 1) \o <<"}">>

\* cache_key = f"{url}?{str(params)}"
cache_key(url, params) == url \o <<"?">> \o StrOfParams(params)

\* what r.json() gives when the request succeeds: two answers that differ
Responses == {[data |-> <<"a">>], [data |-> <<"b">>]}

\* the exceptions requests.get and raise_for_status raise when the request
\* fails, each with the classes of requests.exceptions it belongs to
ExceptionClasses ==
    [ReadTimeout |-> {"ReadTimeout", "Timeout", "RequestException"},
     ConnectTimeout |-> {"ConnectTimeout", "ConnectionError", "Timeout", "RequestException"},
     ConnectionError |-> {"ConnectionError", "RequestException"},
     HTTPError |-> {"HTTPError", "RequestException"}]

RequestFailures == DOMAIN ExceptionClasses

\* except ReadTimeout only
CaughtReadTimeoutOnly(exc) == "ReadTimeout" \in ExceptionClasses[exc]

\* except (ReadTimeout, RequestException)
Caught(exc) == ExceptionClasses[exc] \cap {"ReadTimeout", "RequestException"} # {}

\* an entry that is still served when its age is the whole API_TTL
IsFreshAtExpiry(now, ts) == now - ts <= API_TTL

\* time.time() - ts < API_TTL
IsFresh(now, ts) == now - ts < API_TTL

\* return None if is_single_item else {"data": []}
EmptyValue(is_single_item) == IF is_single_item THEN None ELSE [data |-> <<>>]

(***************************************************************************)
(* data_loader.py: the card catalog as load_data keeps it, and             *)
(* get_local_card_by_id and get_local_related_cards over it.               *)
(***************************************************************************)
\* lines 200-207: a card of _card_data, the card of CardPool at position c
\* with the keys load_data derives
CardAsLoaded(c) == [card |-> c] @@ LoadedCards[c]

\* lines 199-207 over the cards of the files: _card_data after the loop
CatalogOf(cs) == [i \in 1..Len(cs) |-> CardAsLoaded(cs[i])]

\* _card_dict.get(card_id): the last card appended with this id, or None
get_local_card_by_id(cards, card_id) ==
    LET at == {i \in 1..Len(cards) : CardPool[cards[i].card].id = card_id} IN
    IF at = {} THEN None
    ELSE cards[CHOOSE i \in at : \A j \in at : j <= i]

\* not all([set_id, rarity, current_card_id])
SomeArgumentEmpty(set_id, rarity, current_card_id) ==
    set_id = "" \/ rarity = <<>> \/ current_card_id = ""

\* lines 298-301: the test a card passes to be related; a card without a
\* rarity has None, which equals no str
IsRelated(rec, set_id, rarity, current_card_id) ==
    /\ CardPool[rec.card].set_id = set_id
    /\ CardPool[rec.card].rarity # <<>>
    /\ CardPool[rec.card].rarity = rarity
    /\ CardPool[rec.card].id # current_card_id

\* lines 296-302: related, in the order of _card_data
RelatedOf(cards, set_id, rarity, current_card_id) ==
    SelectSeq(cards, LAMBDA rec : IsRelated(rec, set_id, rarity, current_card_id))

\* a list without its i-th element
WithoutAt(l, i) == SubSeq(l, 1, i - 1) \o SubSeq(l, i + 1, Len(l))

\* random.sample(l, k) for 0 <= k <= len(l): every list of k elements taken
\* at different positions of l
RECURSIVE Samples(_, _)
Samples(l, k) ==
    IF k = 0 THEN {<<>>}
    ELSE UNION {{<<l[i]>> \o s : s \in Samples(WithoutAt(l, i), k - 1)} : i \in 1..Len(l)}

\* get_local_related_cards(set_id, rarity, current_card_id, count): what it
\* can return, or that it raises the ValueError of random.sample for a
\* negative count
get_local_related_cards(cards, set_id, rarity, current_card_id, count) ==
    IF SomeArgumentEmpty(set_id, rarity, current_card_id)
    THEN {[pc |-> "returned", out |-> <<>>]}
    ELSE LET related == RelatedOf(cards, set_id, rarity, current_card_id) IN
         IF Len(related) > count
         THEN IF count < 0
              THEN {[pc |-> "raised", out |-> <<>>]}
              ELSE {[pc |-> "returned", out |-> s] : s \in Samples(related, count)}
         ELSE {[pc |-> "returned", out |-> related]}

\* what the directories SETS_PATH and DATA_PATH can hold: the ids of the sets
\* of the set files, and the cards of the card files in the order of
\* os.listdir, each card in the file named after its set_id
EmptyDisk == [sets |-> {}, cards |-> <<>>]

CatalogDisks ==
    {EmptyDisk,
     [sets |-> {"base1"}, cards |-> <<1, 3>>],
     [sets |-> {"base1", "base2"}, cards |-> <<2, 7, 8, 3>>]}

\* lines 195-196: the cards of the files whose set is known
CardsOfKnownSets(disk) == SelectSeq(disk.cards, LAMBDA c : CardPool[c].set_id \in disk.sets)

\* load_data without the return of lines 170-171: the cards of the files are
\* appended to the catalog at every call
load_data_every_time(cards, disk) == cards \o CatalogOf(CardsOfKnownSets(disk))

\* load_data(): _card_data after the call
load_data(cards, disk) ==
    IF cards # <<>> THEN cards ELSE cards \o CatalogOf(CardsOfKnownSets(disk))

\* the positions in CardPool of the cards of a list of loaded cards
PositionsOf(cards) == [i \in 1..Len(cards) |-> cards[i].card]

(***************************************************************************)
(* scraper.py: _filter_sort.                                               *)
(***************************************************************************)
\* the characters of the titles in the order of their code points
CodePointOrder ==
    <<" ", "0", "1", "2", "3", "4", "5", "6", "7", "8", "9">> \o UpperSeq \o LowerSeq
    \o <<"e_acute", "euro_sign", "tm_sign">>

CodePointRank(c) == CHOOSE i \in 1..Len(CodePointOrder) : CodePointOrder[i] = c

\* a < b of two str
RECURSIVE StrLess(_, _)
StrLess(a, b) ==
    IF b = <<>> THEN FALSE
    ELSE IF a = <<>> THEN TRUE
    ELSE IF Head(a) = Head(b) THEN StrLess(Tail(a), Tail(b))
    ELSE CodePointRank(Head(a)) < CodePointRank(Head(b))

\* the 1e12 of line 242 in cents, cut down to the integers at hand; it is above
\* every price that a cell of the model spells
FarPrice == 1000000000

\* "toks = [t for t in q.split() if t]" of q = search_term.casefold().strip()
SearchToks(search_term) == SplitWords(Strip(Lower(search_term)))

\* matches(it): every token is part of the case-folded title
matches(it, toks) ==
    \A n \in 1..Len(toks) : Contains(Lower(it.title), toks[n])

\* "out = [it for it in items if matches(it)]"
RECURSIVE Matching(_, _)
Matching(items, toks) ==
    IF items = <<>> THEN <<>>
    ELSE (IF matches(Head(items), toks) THEN <<Head(items)>> ELSE <<>>)
         \o Matching(Tail(items), toks)

\* the key of price_asc: (price_float is None, price_float or 1e12)
PriceAscKey(it) ==
    <<IF it.price_float = NoFloat THEN 1 ELSE 0,
      IF it.price_float = NoFloat \/ it.price_float = 0 THEN FarPrice ELSE it.price_float>>

\* the key of price_desc: (price_float is None, -(price_float or 0.0))
PriceDescKey(it) ==
    <<IF it.price_float = NoFloat THEN 1 ELSE 0,
      0 - (IF it.price_float = NoFloat THEN 0 ELSE it.price_float)>>

\* a < b of two such pairs
PairLess(a, b) == a[1] < b[1] \/ (a[1] = b[1] /\ a[2] < b[2])

\* whether the key of a is below the key of b under this sort
KeyLess(sort, a, b) ==
    IF sort = "price_asc" THEN PairLess(PriceAscKey(a), PriceAscKey(b))
    ELSE IF sort = "price_desc" THEN PairLess(PriceDescKey(a), PriceDescKey(b))
    ELSE IF sort = "alpha" THEN StrLess(Lower(a.title), Lower(b.title))
    ELSE FALSE

\* list.sort(key=...) is stable: an item goes behind the items whose key is
\* not above its own
RECURSIVE InsertByKey(_, _, _)
InsertByKey(sort, sorted, it) ==
    IF sorted = <<>> THEN <<it>>
    ELSE IF KeyLess(sort, it, Head(sorted)) THEN <<it>> \o sorted
    ELSE <<Head(sorted)>> \o InsertByKey(sort, Tail(sorted), it)

RECURSIVE SortedByKey(_, _, _)
SortedByKey(sort, items, i) ==
    IF i = 0 THEN <<>>
    ELSE InsertByKey(sort, SortedByKey(sort, items, i - 1), items[i])

\* _filter_sort(items, search_term, sort)
filter_sort(items, search_term, sort) ==
    LET out == Matching(items, SearchToks(search_term))
    IN SortedByKey(sort, out, Len(out))

(***************************************************************************)
(* The state.                                                              *)
(***************************************************************************)
VARIABLES
    price_map,      \* data_loader._price_map
    price_index,    \* data_loader._price_index
    by_name_num,    \* data_loader._by_name_num
    loadedFile,     \* the file the last _load_price_data found and read
    reloaded,       \* whether that load replaced the index of another file
    lastQuery,      \* the last lookup on the present index: the position of its
                    \* arguments in Queries, 0 when there was none since the load
    lastResult,     \* the record that lookup returned, or None
    lastReason,     \* the reason of the last get_price_override_ex, "" otherwise
    loadPc,         \* where a _load_price_data in progress stands
    loadPos,        \* the next row of loadedFile it will index
    preIndex,       \* the index as it was when the load in progress began
    simA,           \* the arguments a and b of a call of _set_similarity, as
    simB,           \* positions in SetKeyTexts
    simScore,       \* what the call returned, NoScore before it
    simAccepted,    \* whether the fuzzy step accepts b as a candidate for a
    ITEMS,          \* scraper._ITEMS
    LAST_PATH,      \* scraper._LAST_PATH, 0 for None
    LAST_MTIME,     \* scraper._LAST_MTIME
    LOCK,           \* the thread that holds scraper._LOCK, 0 when it is free
    files,          \* the product files of the directory: for each path its
                    \* mtime (0 while the file does not exist) and its content
    history,        \* the contents written so far, the last one being that of
                    \* the newest file
    callPc,         \* where each thread stands in a public operation
    callPath,       \* its local variable path, 0 for None
    callMtime,      \* its local variable mtime
    callItems,      \* the inventory its operation works on: list(_ITEMS)
    callStart,      \* how many contents had been written when it took the lock
    callStale,      \* whether the newest file was then newer than _LAST_MTIME
    rebuilds,       \* for each mtime, how many rebuilds the callers that
                    \* observed this mtime have made
    buildReader,    \* how the build followed row by row reads its file
    buildRows,      \* the rows of that file, as positions in BuildRows
    buildPc,        \* where that build stands
    buildPos,       \* the next row it will take
    buildLast,      \* the row it took last, 0 before the first
    buildBefore,    \* the index as it was before that row
    itemsFile,      \* the product file handed to _load_items_from_file
    itemsOut,       \* the list it returned
    itemsDone,      \* whether it has returned
    urlBase,        \* the URL two spellings are made of, a position in BaseUrls
    urlA,           \* how the first URL is spelled
    urlB,           \* how the second URL is spelled
    urlCanon,       \* _canon_url of the two, in this order
    urlKept,        \* what _load_items_from_file kept of two rows with one
                    \* title, one price and these two URLs
    urlDone,        \* whether both have been computed
    searchCards,    \* data_loader._card_data, as positions in CardPool
    searchQuery,    \* the query of a search_local_cards, a position in SearchQueries
    searchLimit,    \* its limit
    searchOut,      \* the cards it returned, as positions in CardPool
    searchDone,     \* whether it has returned
    API_CACHE,      \* scraper_pokemon.API_CACHE: cache key -> (ts, data)
    clock,          \* what time.time() returns now, in seconds
    fetchPc,        \* where each caller of _fetch_json is
    fetchArgs,      \* the arguments of its call
    fetchSeen,      \* the entry its call read at line 30, or None
    fetchAt,        \* the time its call read at line 31, 0 when it read none
    fetchAttempt,   \* the loop variable of line 33
    fetchIssued,    \* how many requests its call has issued
    fetchData,      \* the answer its request received
    fetchResult,    \* what its call returned
    card_data,      \* data_loader._card_data: the cards load_data has kept
    catDisk,        \* what the set and card files hold, one of CatalogDisks
    catOp,          \* the last operation that was run over the catalog
    catOut,         \* the cards it returned
    relArgs,        \* the arguments of a get_local_related_cards
    relOut,         \* the cards it returned
    relPc,          \* "idle" before the call, then "returned" or "raised"
    tokIn,          \* a string handed to _tokenize
    tokOnce,        \* _tokenize of it
    tokTwice,       \* _tokenize of that
    tokPc,          \* how many of the two calls have returned
    sortItems,      \* the list _filter_sort is handed: list(_ITEMS)
    sortTerm,       \* its search_term
    sortMode,       \* its sort
    sortOut,        \* the list it returned
    sortDone        \* whether it has returned

priceVars == <<price_map, price_index, by_name_num, loadedFile, reloaded>>
lookupVars == <<lastQuery, lastResult, lastReason>>
loadVars == <<loadPc, loadPos, preIndex>>
simVars == <<simA, simB, simScore, simAccepted>>
scraperVars == <<ITEMS, LAST_PATH, LAST_MTIME, LOCK>>
fileVars == <<files, history>>
callVars == <<callPc, callPath, callMtime, callItems, callStart, callStale, rebuilds>>
buildVars == <<buildReader, buildRows, buildPc, buildPos, buildLast, buildBefore>>
itemVars == <<itemsFile, itemsOut, itemsDone>>
urlVars == <<urlBase, urlA, urlB, urlCanon, urlKept, urlDone>>
searchVars == <<searchCards, searchQuery, searchLimit, searchOut, searchDone>>
fetchVars == <<API_CACHE, clock, fetchPc, fetchArgs, fetchSeen, fetchAt,
               fetchAttempt, fetchIssued, fetchData, fetchResult>>
tokVars == <<tokIn, tokOnce, tokTwice, tokPc>>
sortVars == <<sortItems, sortTerm, sortMode, sortOut, sortDone>>
catVars == <<card_data, catDisk, catOp, catOut, relArgs, relOut, relPc>>
laterVars == <<buildVars, itemVars, urlVars, searchVars, fetchVars, catVars, tokVars, sortVars>>
notBuildVars == <<itemVars, urlVars, searchVars, fetchVars, catVars, tokVars, sortVars>>
notItemVars == <<buildVars, urlVars, searchVars, fetchVars, catVars, tokVars, sortVars>>
notUrlVars == <<buildVars, itemVars, searchVars, fetchVars, catVars, tokVars, sortVars>>
notSearchVars == <<buildVars, itemVars, urlVars, fetchVars, catVars, tokVars, sortVars>>
notFetchVars == <<buildVars, itemVars, urlVars, searchVars, catVars, tokVars, sortVars>>
notCatState == <<priceVars, lookupVars, loadVars, simVars, scraperVars, fileVars, callVars,
                 buildVars, itemVars, urlVars, searchVars, fetchVars, tokVars, sortVars>>
notTokState == <<priceVars, lookupVars, loadVars, simVars, scraperVars, fileVars, callVars,
                 buildVars, itemVars, urlVars, searchVars, fetchVars, catVars, sortVars>>
notSortState == <<priceVars, lookupVars, loadVars, simVars, scraperVars, fileVars, callVars,
                  buildVars, itemVars, urlVars, searchVars, fetchVars, catVars, tokVars>>
otherVars == <<simVars, scraperVars, fileVars, callVars, laterVars>>
dataLoaderVars == <<priceVars, lookupVars, loadVars, simVars, laterVars>>
vars == <<priceVars, lookupVars, loadVars, otherVars>>

\* the three index globals as one record
Index == [price_map |-> price_map, price_index |-> price_index, by_name_num |-> by_name_num]

SetIndex(idx) ==
    /\ price_map' = idx.price_map
    /\ price_index' = idx.price_index
    /\ by_name_num' = idx.by_name_num

\* what _find_latest_price_file can find when a load runs: a file, or none
PriceFiles == {FileOf(rs) : rs \in RowLists(MaxRows)} \cup {NoFile}

\* no _set_similarity has returned yet
NoScore == [num |-> 0, den |-> 0]

\* data_loader as imported: the globals are empty
InitPrices ==
    /\ price_map = <<>>
    /\ price_index = {}
    /\ by_name_num = <<>>
    /\ loadedFile = NoFile
    /\ reloaded = FALSE
    /\ lastQuery = 0
    /\ lastResult = None
    /\ lastReason = ""
    /\ loadPc = "idle"
    /\ loadPos = 0
    /\ preIndex = EmptyIndex

\* no build is followed row by row
NoBuild ==
    /\ buildReader = "csv"
    /\ buildRows = <<>>
    /\ buildPc = "idle"
    /\ buildPos = 0
    /\ buildLast = 0
    /\ buildBefore = EmptyIndex

\* no product file has been handed over
NoItemsCall ==
    /\ itemsFile = ProductFile(1, <<>>)
    /\ itemsOut = <<>>
    /\ itemsDone = FALSE

\* no pair of URLs has been taken
NoUrls ==
    /\ urlBase = 1
    /\ urlA = PlainSpelling
    /\ urlB = PlainSpelling
    /\ urlCanon = <<>>
    /\ urlKept = <<>>
    /\ urlDone = FALSE

\* an empty catalog and no search
NoSearch ==
    /\ searchCards = <<>>
    /\ searchQuery = 1
    /\ searchLimit = 1
    /\ searchOut = <<>>
    /\ searchDone = FALSE

\* the callers of _fetch_json
FetchCallers == {"t1", "t2"}

\* the arguments of no call
NoArgs == [url |-> <<>>, params |-> None, retries |-> 0, is_single_item |-> FALSE]

\* an empty cache, the clock at its start and no call of _fetch_json
NoFetch ==
    /\ API_CACHE = <<>>
    /\ clock = 0
    /\ fetchPc = [t \in FetchCallers |-> "idle"]
    /\ fetchArgs = [t \in FetchCallers |-> NoArgs]
    /\ fetchSeen = [t \in FetchCallers |-> None]
    /\ fetchAt = [t \in FetchCallers |-> 0]
    /\ fetchAttempt = [t \in FetchCallers |-> 0]
    /\ fetchIssued = [t \in FetchCallers |-> 0]
    /\ fetchData = [t \in FetchCallers |-> None]
    /\ fetchResult = [t \in FetchCallers |-> None]

\* the arguments of no call of get_local_related_cards
NoRelatedArgs == [set_id |-> "", rarity |-> <<>>, current_card_id |-> "", count |-> 0]

\* an empty catalog, no card file and no operation on the catalog
NoCatalog ==
    /\ card_data = <<>>
    /\ catDisk = EmptyDisk
    /\ catOp = "none"
    /\ catOut = <<>>
    /\ relArgs = NoRelatedArgs
    /\ relOut = <<>>
    /\ relPc = "idle"

\* no string has been handed to _tokenize
NoTokenize ==
    /\ tokIn = <<>>
    /\ tokOnce = <<>>
    /\ tokTwice = <<>>
    /\ tokPc = 0

\* no _filter_sort has been called
NoSort ==
    /\ sortItems = <<>>
    /\ sortTerm = <<>>
    /\ sortMode = "bestsellers"
    /\ sortOut = <<>>
    /\ sortDone = FALSE

\* nothing of the operations modelled further below is under way
InitLater ==
    NoBuild /\ NoItemsCall /\ NoUrls /\ NoSearch /\ NoFetch /\ NoCatalog /\ NoTokenize /\ NoSort

NoSimilarityCall ==
    /\ simA = 1
    /\ simB = 1
    /\ simScore = NoScore
    /\ simAccepted = FALSE

\* the threads that call the public operations of scraper
MaxThreads == 2

Threads == 1..MaxThreads

\* the paths of the product directory
Paths == {1, 2}

\* the most writes to the product directory
MaxWrites == 2

\* the contents that are written to product files
CatalogContents ==
    <<ProductFile(1, <<1, 4>>), ProductFile(1, <<3>>)>>

\* _load_items_from_file of each of these contents, computed once
ItemsOfContent ==
    <<>> @@ [c \in 1..Len(CatalogContents) |->
                load_items_from_file(read_rows(CatalogContents[c]))]

\* scraper as imported (lines 23-26), an empty directory, no call under way
InitScraper ==
    /\ ITEMS = <<>>
    /\ LAST_PATH = 0
    /\ LAST_MTIME = 0
    /\ LOCK = 0
    /\ files = [p \in Paths |-> [mtime |-> 0, content |-> 1]]
    /\ history = <<>>
    /\ callPc = [t \in Threads |-> "idle"]
    /\ callPath = [t \in Threads |-> 0]
    /\ callMtime = [t \in Threads |-> 0]
    /\ callItems = [t \in Threads |-> <<>>]
    /\ callStart = [t \in Threads |-> 0]
    /\ callStale = [t \in Threads |-> FALSE]
    /\ rebuilds = [m \in 1..MaxWrites |-> 0]

Init == InitPrices /\ NoSimilarityCall /\ InitScraper /\ InitLater

\* refresh_price_data(), run to its end without another thread in between; the
\* file is the newest one of the prices directory at that moment
RefreshPriceData ==
    /\ loadPc = "idle"
    /\ \E file \in PriceFiles :
          /\ SetIndex(load_price_data(Index, file))
          /\ loadedFile' = file
          /\ reloaded' = (loadedFile.present /\ loadedFile # file)
    /\ lastQuery' = 0
    /\ lastResult' = None
    /\ lastReason' = ""
    /\ UNCHANGED <<loadVars, otherVars>>

\* get_price_override(name, set_name, number)
GetPriceOverride ==
    /\ \E q \in 1..Len(Queries), ord \in SetOrders :
          /\ lastQuery' = q
          /\ lastResult' = get_price_override(Index, ParsedQueries[q], ord)
    /\ lastReason' = ""
    /\ UNCHANGED <<priceVars, loadVars, otherVars>>

\* the lookup q and the (value, reason) pair it returned are recorded
Returned(q, r) ==
    /\ lastQuery' = q
    /\ lastResult' = r[1]
    /\ lastReason' = r[2]

\* get_price_override_ex(name, set_name, number)
GetPriceOverrideEx ==
    /\ \E q \in 1..Len(Queries), ord \in SetOrders :
          Returned(q, get_price_override_ex(Index, ParsedQueries[q], ord))
    /\ UNCHANGED <<priceVars, loadVars, otherVars>>

Next ==
    \/ RefreshPriceData
    \/ GetPriceOverride
    \/ GetPriceOverrideEx

Spec == Init /\ [][Next]_vars

(***************************************************************************)
(* _load_price_data step by step, with lookups of other threads between    *)
(* its steps: data_loader takes no lock, and the load fills the globals    *)
(* in place after it has reset them.                                       *)
(***************************************************************************)
\* the rows of PriceRows that the files of the step-by-step load are made of
MaxLoadRow == 4

LoadFiles ==
    {FileOf(rs) : rs \in {r \in RowLists(MaxRows) : \A i \in 1..Len(r) : r[i] <= MaxLoadRow}}
        \cup {NoFile}

NoLookupYet ==
    /\ lastQuery' = 0
    /\ lastResult' = None
    /\ lastReason' = ""

\* lines 435-445: the three globals are reset, the newest file is looked for;
\* without a file the load returns
LoadStart ==
    /\ loadPc = "idle"
    /\ \E file \in LoadFiles :
          /\ loadedFile' = file
          /\ reloaded' = (loadedFile.present /\ loadedFile # file)
          /\ loadPc' = IF file.present THEN "rows" ELSE "idle"
    /\ preIndex' = Index
    /\ SetIndex(EmptyIndex)
    /\ loadPos' = 1
    /\ NoLookupYet
    /\ UNCHANGED otherVars

\* one turn of the loop "for row in rows"
LoadRow ==
    /\ loadPc = "rows"
    /\ loadPos <= Len(loadedFile.rows)
    /\ SetIndex(IndexRow(Index, ParsedPriceRows[loadedFile.rows[loadPos]],
                         DetectedCurrency[loadedFile.rows]))
    /\ loadPos' = loadPos + 1
    /\ NoLookupYet
    /\ UNCHANGED <<loadedFile, reloaded, loadPc, preIndex, otherVars>>

\* the loop is over and _load_price_data returns
LoadFinish ==
    /\ loadPc = "rows"
    /\ loadPos > Len(loadedFile.rows)
    /\ loadPc' = "idle"
    /\ NoLookupYet
    /\ UNCHANGED <<priceVars, loadPos, preIndex, otherVars>>

NextLoad ==
    \/ LoadStart
    \/ LoadRow
    \/ LoadFinish
    \/ GetPriceOverride

SpecLoad == Init /\ [][NextLoad]_vars

(***************************************************************************)
(* _load_price_data followed row by row over files that hold rows without  *)
(* a name, a set or a number, read by pandas or by csv.DictReader.         *)
(***************************************************************************)
\* the row the loop is about to take
BuildRowId == buildRows[buildPos]

\* lines 435-469: the globals are reset, the file is found and read
BuildStart ==
    /\ buildPc # "rows"
    /\ loadPc = "idle"
    /\ \E reader \in Readers, rs \in BuildLists :
          /\ buildReader' = reader
          /\ buildRows' = rs
    /\ SetIndex(EmptyIndex)
    /\ buildPc' = "rows"
    /\ buildPos' = 1
    /\ buildLast' = 0
    /\ buildBefore' = EmptyIndex
    /\ NoLookupYet
    /\ UNCHANGED <<loadedFile, reloaded, loadVars>>
    /\ UNCHANGED <<simVars, scraperVars, fileVars, callVars, notBuildVars>>

\* one turn of "for row in rows" (lines 482-549) that does not raise
BuildRow ==
    /\ buildPc = "rows"
    /\ buildPos <= Len(buildRows)
    /\ ~StripRaises(buildReader, BuildRows[BuildRowId])
    /\ SetIndex(IndexRow(Index, ParsedBuildRows[<<buildReader, BuildRowId>>],
                         BuildCurrency[<<buildReader, buildRows>>]))
    /\ buildBefore' = Index
    /\ buildLast' = BuildRowId
    /\ buildPos' = buildPos + 1
    /\ UNCHANGED <<buildReader, buildRows, buildPc>>
    /\ UNCHANGED <<loadedFile, reloaded, lookupVars, loadVars>>
    /\ UNCHANGED <<simVars, scraperVars, fileVars, callVars, notBuildVars>>

\* a turn of the loop in which lines 490-491 raise AttributeError: the
\* exception leaves _load_price_data, the globals stay as the rows before
\* made them
BuildRaise ==
    /\ buildPc = "rows"
    /\ buildPos <= Len(buildRows)
    /\ StripRaises(buildReader, BuildRows[BuildRowId])
    /\ buildPc' = "raised"
    /\ buildBefore' = Index
    /\ buildLast' = BuildRowId
    /\ UNCHANGED <<buildReader, buildRows, buildPos>>
    /\ UNCHANGED <<priceVars, lookupVars, loadVars>>
    /\ UNCHANGED <<simVars, scraperVars, fileVars, callVars, notBuildVars>>

\* the loop is over and _load_price_data returns
BuildFinish ==
    /\ buildPc = "rows"
    /\ buildPos > Len(buildRows)
    /\ buildPc' = "done"
    /\ UNCHANGED <<buildReader, buildRows, buildPos, buildLast, buildBefore>>
    /\ UNCHANGED <<priceVars, lookupVars, loadVars>>
    /\ UNCHANGED <<simVars, scraperVars, fileVars, callVars, notBuildVars>>

NextBuild ==
    \/ BuildStart
    \/ BuildRow
    \/ BuildRaise
    \/ BuildFinish

SpecBuild == Init /\ [][NextBuild]_vars

(***************************************************************************)
(* _set_similarity on pairs of set keys.                                   *)
(***************************************************************************)
\* the set keys the pairs are drawn from
SetKeyTexts ==
    <<<<"b", "a", "s", "e", " ", "s", "e", "t">>,
      <<"b", "a", "s", "e">>,
      <<"j", "u", "n", "g", "l", "e">>,
      <<"f", "o", "s", "s", "i", "l">>,
      <<"b", "a", "s", "e", " ", "s", "e", "t", " ", "2">>,
      <<"g", "y", "m", " ", "n", "e", "o">>,
      <<"n", "e", "o", " ", "g", "y", "m">>,
      <<"t", "e", "a", "m", " ", "r", "o", "c", "k", "e", "t">>,
      <<"n", "e", "o", " ", "g", "e", "n", "e", "s", "i", "s">>,
      <<>>,
      <<"g", "y", "m", " ", " ", "n", "e", "o">>>>

\* a record that the multimap holds for the candidate
SomeRecord ==
    [market |-> 10, psa9 |-> NoPrice, psa10 |-> NoPrice, currency |-> "EUR", source |-> "excel"]

\* the fuzzy step of get_price_override over the one candidate (b, SomeRecord)
\* for the set key a: whether it returns the candidate's record
AcceptsCandidate(a, b) ==
    AcceptBest(BestFrom(<<<<b, SomeRecord>>>>, 1, a,
                        [best |-> None, best_score |-> [num |-> 0, den |-> 1]])) # None

InitSim ==
    /\ InitPrices
    /\ simA \in 1..Len(SetKeyTexts)
    /\ simB \in 1..Len(SetKeyTexts)
    /\ simScore = NoScore
    /\ simAccepted = FALSE
    /\ InitScraper
    /\ InitLater

\* _set_similarity(a, b) is called and the fuzzy step compares it with 0.72
SetSimilarity ==
    /\ simScore = NoScore
    /\ simScore' = set_similarity(SetKeyTexts[simA], SetKeyTexts[simB])
    /\ simAccepted' = AcceptsCandidate(SetKeyTexts[simA], SetKeyTexts[simB])
    /\ UNCHANGED <<simA, simB, priceVars, lookupVars, loadVars>>
    /\ UNCHANGED <<scraperVars, fileVars, callVars, laterVars>>

NextSim == SetSimilarity

SpecSim == InitSim /\ [][NextSim]_vars

(***************************************************************************)
(* scraper.py: _load_items_from_file on csv files of a few rows.           *)
(***************************************************************************)
\* the most rows of such a file
MaxItems == 3

\* every list of at most n rows of ProductRows, a row possibly repeated
RECURSIVE ProductRowLists(_)
ProductRowLists(n) ==
    IF n = 0 THEN {<<>>}
    ELSE ProductRowLists(n - 1)
         \cup {Append(x[1], x[2]) : x \in ProductRowLists(n - 1) \X (1..Len(ProductRows))}

ProductFiles ==
    {ProductFile(h, ids) : h \in 1..Len(ProductHeaders), ids \in ProductRowLists(MaxItems)}

InitItems ==
    /\ InitPrices
    /\ NoSimilarityCall
    /\ InitScraper
    /\ NoBuild
    /\ NoUrls
    /\ NoSearch
    /\ NoFetch
    /\ NoCatalog
    /\ NoTokenize
    /\ NoSort
    /\ itemsFile \in ProductFiles
    /\ itemsOut = <<>>
    /\ itemsDone = FALSE

\* _load_items_from_file(path)
LoadItems ==
    /\ ~itemsDone
    /\ itemsOut' = load_items_from_file(read_rows(itemsFile))
    /\ itemsDone' = TRUE
    /\ UNCHANGED <<itemsFile, notItemVars>>
    /\ UNCHANGED <<priceVars, lookupVars, loadVars, simVars, scraperVars, fileVars, callVars>>

NextItems == LoadItems

SpecItems == InitItems /\ [][NextItems]_vars

(***************************************************************************)
(* scraper.py: _canon_url on two spellings of one URL, and the two rows    *)
(* that hold them in _load_items_from_file.                                *)
(***************************************************************************)
InitUrls ==
    /\ InitPrices
    /\ NoSimilarityCall
    /\ InitScraper
    /\ NoBuild
    /\ NoItemsCall
    /\ NoSearch
    /\ NoFetch
    /\ NoCatalog
    /\ NoTokenize
    /\ NoSort
    /\ urlBase \in 1..Len(BaseUrls)
    /\ urlA \in Spellings
    /\ urlB \in Spellings
    /\ urlCanon = <<>>
    /\ urlKept = <<>>
    /\ urlDone = FALSE

\* _canon_url of both URLs; _load_items_from_file of the two rows
CanonBoth ==
    /\ ~urlDone
    /\ urlCanon' = <<CanonUrls[<<urlBase, urlA>>], CanonUrls[<<urlBase, urlB>>]>>
    /\ urlKept' = ItemsOfUrls(UrlSpelled(BaseUrls[urlBase], urlA),
                              UrlSpelled(BaseUrls[urlBase], urlB))
    /\ urlDone' = TRUE
    /\ UNCHANGED <<urlBase, urlA, urlB, notUrlVars>>
    /\ UNCHANGED <<priceVars, lookupVars, loadVars, simVars, scraperVars, fileVars, callVars>>

NextUrls == CanonBoth

SpecUrls == InitUrls /\ [][NextUrls]_vars

(***************************************************************************)
(* data_loader.py: search_local_cards over catalogs of a few cards.        *)
(***************************************************************************)
\* the most cards of a catalog
MaxCards == 3

\* the greatest limit a search is called with
MaxLimit == 2

\* every list of at most n different cards of CardPool, in every order
RECURSIVE CardLists(_)
CardLists(n) ==
    IF n = 0 THEN {<<>>}
    ELSE CardLists(n - 1)
         \cup {Append(x[1], x[2]) :
                 x \in {y \in CardLists(n - 1) \X (1..Len(CardPool)) :
                           \A i \in 1..Len(y[1]) : y[1][i] # y[2]}}

InitSearch ==
    /\ InitPrices
    /\ NoSimilarityCall
    /\ InitScraper
    /\ NoBuild
    /\ NoItemsCall
    /\ NoUrls
    /\ NoFetch
    /\ NoCatalog
    /\ NoTokenize
    /\ NoSort
    /\ searchCards \in CardLists(MaxCards)
    /\ searchQuery \in 1..Len(SearchQueries)
    /\ searchLimit \in 1..MaxLimit
    /\ searchOut = <<>>
    /\ searchDone = FALSE

\* search_local_cards(query, limit)
SearchLocalCards ==
    /\ ~searchDone
    /\ searchOut' = search_local_cards(searchQuery, searchLimit, searchCards)
    /\ searchDone' = TRUE
    /\ UNCHANGED <<searchCards, searchQuery, searchLimit, notSearchVars>>
    /\ UNCHANGED <<priceVars, lookupVars, loadVars, simVars, scraperVars, fileVars, callVars>>

NextSearch == SearchLocalCards

SpecSearch == InitSearch /\ [][NextSearch]_vars

(***************************************************************************)
(* scraper_pokemon.py: calls of _fetch_json by several threads while the   *)
(* clock moves.                                                            *)
(***************************************************************************)
\* the greatest retries a call is made with
MaxRetries == 1

\* the instants at which something happens, in seconds after the first: the
\* clock moves from one to any later one
Instants == {0, API_TTL - 1, API_TTL}

notFetchState == <<priceVars, lookupVars, loadVars, simVars, scraperVars, fileVars, callVars,
                   notFetchVars>>

\* time passes
Tick ==
    /\ \E later \in Instants : later > clock /\ clock' = later
    /\ UNCHANGED <<API_CACHE, fetchPc, fetchArgs, fetchSeen, fetchAt, fetchAttempt,
                   fetchIssued, fetchData, fetchResult>>
    /\ UNCHANGED notFetchState

\* the arguments callers pass
FetchCalls ==
    [url : FetchUrls, params : FetchParams, retries : 0..MaxRetries, is_single_item : BOOLEAN]

\* lines 27-32 when the key is cached and the entry is fresh: the call
\* returns the cached data
CallCached(t) ==
    /\ fetchPc[t] = "idle"
    /\ \E args \in FetchCalls :
          LET key == cache_key(args.url, args.params) IN
          /\ key \in DOMAIN API_CACHE
          /\ IsFresh(clock, API_CACHE[key].ts)
          /\ fetchArgs' = [fetchArgs EXCEPT ![t] = args]
          /\ fetchSeen' = [fetchSeen EXCEPT ![t] = API_CACHE[key]]
          /\ fetchResult' = [fetchResult EXCEPT ![t] = API_CACHE[key].data]
    /\ fetchAt' = [fetchAt EXCEPT ![t] = clock]
    /\ fetchAttempt' = [fetchAttempt EXCEPT ![t] = 0]
    /\ fetchIssued' = [fetchIssued EXCEPT ![t] = 0]
    /\ fetchData' = [fetchData EXCEPT ![t] = None]
    /\ fetchPc' = [fetchPc EXCEPT ![t] = "done"]
    /\ UNCHANGED <<API_CACHE, clock>>
    /\ UNCHANGED notFetchState

\* lines 27-33 when the key is not cached or its entry has expired: the
\* call goes on to the loop of line 33
CallUncached(t) ==
    /\ fetchPc[t] = "idle"
    /\ \E args \in FetchCalls :
          LET key == cache_key(args.url, args.params) IN
          /\ key \in DOMAIN API_CACHE => ~IsFresh(clock, API_CACHE[key].ts)
          /\ fetchArgs' = [fetchArgs EXCEPT ![t] = args]
          /\ fetchSeen' = [fetchSeen EXCEPT ![t] =
                              IF key \in DOMAIN API_CACHE THEN API_CACHE[key] ELSE None]
          /\ fetchAt' = [fetchAt EXCEPT ![t] =
                            IF key \in DOMAIN API_CACHE THEN clock ELSE 0]
    /\ fetchAttempt' = [fetchAttempt EXCEPT ![t] = 0]
    /\ fetchIssued' = [fetchIssued EXCEPT ![t] = 0]
    /\ fetchData' = [fetchData EXCEPT ![t] = None]
    /\ fetchResult' = [fetchResult EXCEPT ![t] = None]
    /\ fetchPc' = [fetchPc EXCEPT ![t] = "get"]
    /\ UNCHANGED <<API_CACHE, clock>>
    /\ UNCHANGED notFetchState

\* lines 35-40 when the request succeeds: the answer is cached with the time
\* of this moment and returned
GetOk(t) ==
    /\ fetchPc[t] = "get"
    /\ fetchIssued' = [fetchIssued EXCEPT ![t] = @ + 1]
    /\ \E data \in Responses :
          /\ fetchData' = [fetchData EXCEPT ![t] = data]
          /\ API_CACHE' = (cache_key(fetchArgs[t].url, fetchArgs[t].params)
                              :> [ts |-> clock, data |-> data]) @@ API_CACHE
          /\ fetchResult' = [fetchResult EXCEPT ![t] = data]
    /\ fetchPc' = [fetchPc EXCEPT ![t] = "done"]
    /\ UNCHANGED <<clock, fetchArgs, fetchSeen, fetchAt, fetchAttempt>>
    /\ UNCHANGED notFetchState

\* lines 35-45 when the request fails: the next attempt after the sleep of
\* line 43, the empty value after the last one, and the exception itself when
\* line 41 does not catch it
GetFail(t) ==
    /\ fetchPc[t] = "get"
    /\ fetchIssued' = [fetchIssued EXCEPT ![t] = @ + 1]
    /\ \E exc \in RequestFailures :
          IF ~Caught(exc)
          THEN /\ fetchPc' = [fetchPc EXCEPT ![t] = "raised"]
               /\ UNCHANGED <<fetchAttempt, fetchResult>>
          ELSE IF fetchAttempt[t] < fetchArgs[t].retries
          THEN /\ fetchAttempt' = [fetchAttempt EXCEPT ![t] = @ + 1]
               /\ UNCHANGED <<fetchPc, fetchResult>>
          ELSE /\ fetchResult' = [fetchResult EXCEPT ![t] =
                                     EmptyValue(fetchArgs[t].is_single_item)]
               /\ fetchPc' = [fetchPc EXCEPT ![t] = "done"]
               /\ UNCHANGED fetchAttempt
    /\ UNCHANGED <<API_CACHE, clock, fetchArgs, fetchSeen, fetchAt, fetchData>>
    /\ UNCHANGED notFetchState

\* the caller has taken what its call returned and is free to call again
TakeResult(t) ==
    /\ fetchPc[t] = "done"
    /\ fetchPc' = [fetchPc EXCEPT ![t] = "idle"]
    /\ fetchArgs' = [fetchArgs EXCEPT ![t] = NoArgs]
    /\ fetchSeen' = [fetchSeen EXCEPT ![t] = None]
    /\ fetchAt' = [fetchAt EXCEPT ![t] = 0]
    /\ fetchAttempt' = [fetchAttempt EXCEPT ![t] = 0]
    /\ fetchIssued' = [fetchIssued EXCEPT ![t] = 0]
    /\ fetchData' = [fetchData EXCEPT ![t] = None]
    /\ fetchResult' = [fetchResult EXCEPT ![t] = None]
    /\ UNCHANGED <<API_CACHE, clock>>
    /\ UNCHANGED notFetchState

NextFetch ==
    \/ Tick
    \/ \E t \in FetchCallers :
          \/ CallCached(t)
          \/ CallUncached(t)
          \/ GetOk(t)
          \/ GetFail(t)
          \/ TakeResult(t)

SpecFetch == Init /\ [][NextFetch]_vars

(***************************************************************************)
(* data_loader.py: get_local_related_cards over a loaded catalog, called   *)
(* as /api/tcg/related calls it: with three strings, each of which may be  *)
(* empty, and any integer as count.                                        *)
(***************************************************************************)
\* the greatest count of a call
MaxCount == 2

\* the arguments of the calls
RelatedCalls ==
    [set_id : {"base1", "base2", ""},
     rarity : {<<"R", "a", "r", "e", " ", "H", "o", "l", "o">>, <<"C", "o", "m", "m", "o", "n">>, <<>>},
     current_card_id : {"base1-104", "base2-60", ""},
     count : (-1)..MaxCount]

InitRelated ==
    /\ InitPrices
    /\ NoSimilarityCall
    /\ InitScraper
    /\ NoBuild
    /\ NoItemsCall
    /\ NoUrls
    /\ NoSearch
    /\ NoFetch
    /\ NoTokenize
    /\ NoSort
    /\ card_data \in {CatalogOf(cs) : cs \in CardLists(MaxCards)}
    /\ catDisk = EmptyDisk
    /\ catOp = "none"
    /\ catOut = <<>>
    /\ relArgs \in RelatedCalls
    /\ relOut = <<>>
    /\ relPc = "idle"

\* get_local_related_cards(set_id, rarity, current_card_id, count)
GetLocalRelatedCards ==
    /\ relPc = "idle"
    /\ \E r \in get_local_related_cards(card_data, relArgs.set_id, relArgs.rarity,
                                        relArgs.current_card_id, relArgs.count) :
          /\ relPc' = r.pc
          /\ relOut' = r.out
    /\ UNCHANGED <<card_data, catDisk, catOp, catOut, relArgs>>
    /\ UNCHANGED notCatState

NextRelated == GetLocalRelatedCards

SpecRelated == InitRelated /\ [][NextRelated]_vars

(***************************************************************************)
(* data_loader.py: the catalog over the life of the process: load_data,    *)
(* the operations that read the catalog, and the price operations, one     *)
(* after another, while the files on disk change.  catOp and catOut hold   *)
(* the last operation and the cards it returned.                           *)
(***************************************************************************)
\* the price files found while the catalog is followed
CatalogPriceFiles == {NoFile, FileOf(<<1>>), FileOf(<<1, 2>>)}

notCatalogOrPrices == <<loadVars, simVars, scraperVars, fileVars, callVars, buildVars, itemVars,
                        urlVars, searchVars, fetchVars, relArgs, relOut, relPc, tokVars,
                        sortVars>>

\* the card and set files are written
WriteCards ==
    /\ \E disk \in CatalogDisks : disk # catDisk /\ catDisk' = disk
    /\ UNCHANGED <<card_data, catOp, catOut, priceVars, lookupVars>>
    /\ UNCHANGED notCatalogOrPrices

\* load_data(): nothing when the catalog has cards, otherwise the files are
\* loaded and _load_price_data() builds the price index
LoadData ==
    /\ card_data' = load_data(card_data, catDisk)
    /\ IF card_data # <<>>
       THEN UNCHANGED <<priceVars, lookupVars>>
       ELSE /\ \E file \in CatalogPriceFiles :
                  /\ SetIndex(load_price_data(Index, file))
                  /\ loadedFile' = file
                  /\ reloaded' = (loadedFile.present /\ loadedFile # file)
            /\ lastQuery' = 0
            /\ lastResult' = None
            /\ lastReason' = ""
    /\ catOp' = "load_data"
    /\ catOut' = <<>>
    /\ UNCHANGED catDisk
    /\ UNCHANGED notCatalogOrPrices

\* search_local_cards(query, limit)
SearchCatalog ==
    /\ \E q \in 1..Len(SearchQueries), limit \in 1..MaxLimit :
          catOut' = search_local_cards(q, limit, PositionsOf(card_data))
    /\ catOp' = "search_local_cards"
    /\ UNCHANGED <<card_data, catDisk, priceVars, lookupVars>>
    /\ UNCHANGED notCatalogOrPrices

\* get_local_card_by_id(card_id)
CardById ==
    /\ \E c \in 1..Len(CardPool) :
          LET found == get_local_card_by_id(card_data, CardPool[c].id) IN
          catOut' = IF found = None THEN <<>> ELSE <<found.card>>
    /\ catOp' = "get_local_card_by_id"
    /\ UNCHANGED <<card_data, catDisk, priceVars, lookupVars>>
    /\ UNCHANGED notCatalogOrPrices

\* get_local_related_cards(set_id, rarity, current_card_id, count)
RelatedInCatalog ==
    /\ \E args \in RelatedCalls :
       \E r \in get_local_related_cards(card_data, args.set_id, args.rarity,
                                        args.current_card_id, args.count) :
          /\ catOut' = PositionsOf(r.out)
          /\ catOp' = IF r.pc = "raised" THEN "get_local_related_cards raised"
                      ELSE "get_local_related_cards"
    /\ UNCHANGED <<card_data, catDisk, priceVars, lookupVars>>
    /\ UNCHANGED notCatalogOrPrices

\* get_price_override(name, set_name, number)
PriceOverrideOfCard ==
    /\ \E q \in 1..Len(Queries), ord \in SetOrders :
          /\ lastQuery' = q
          /\ lastResult' = get_price_override(Index, ParsedQueries[q], ord)
    /\ lastReason' = ""
    /\ catOp' = "get_price_override"
    /\ catOut' = <<>>
    /\ UNCHANGED <<card_data, catDisk, priceVars>>
    /\ UNCHANGED notCatalogOrPrices

\* refresh_price_data()
RefreshBesideCatalog ==
    /\ \E file \in CatalogPriceFiles :
          /\ SetIndex(load_price_data(Index, file))
          /\ loadedFile' = file
          /\ reloaded' = (loadedFile.present /\ loadedFile # file)
    /\ lastQuery' = 0
    /\ lastResult' = None
    /\ lastReason' = ""
    /\ catOp' = "refresh_price_data"
    /\ catOut' = <<>>
    /\ UNCHANGED <<card_data, catDisk>>
    /\ UNCHANGED notCatalogOrPrices

NextCatalog ==
    \/ WriteCards
    \/ LoadData
    \/ SearchCatalog
    \/ CardById
    \/ RelatedInCatalog
    \/ PriceOverrideOfCard
    \/ RefreshBesideCatalog

SpecCatalog == Init /\ [][NextCatalog]_vars

(***************************************************************************)
(* data_loader.py: _tokenize applied to a string and then to its own       *)
(* result.                                                                 *)
(***************************************************************************)
\* the most pieces a string is made of
MaxPieces == 3

\* what the strings are made of: HTML entities, percent escapes, characters
\* that are not ASCII, letters, digits, a space and punctuation
TextPieces ==
    {<<"&", "a", "m", "p", ";">>, <<"&", "#", "3", "9", ";">>,
     <<"%", "2", "7">>, <<"%", "2", "5">>, <<"%", "2", "0">>,
     <<"e_acute">>, <<"tm_sign">>, <<"euro_sign">>,
     <<"A">>, <<"2">>, <<"7">>, <<" ">>, <<"-">>}

\* every string of at most n pieces
RECURSIVE TextsOf(_)
TextsOf(n) ==
    IF n = 0 THEN {<<>>}
    ELSE TextsOf(n - 1) \cup {x[1] \o x[2] : x \in TextsOf(n - 1) \X TextPieces}

InitTokenize ==
    /\ InitPrices
    /\ NoSimilarityCall
    /\ InitScraper
    /\ NoBuild
    /\ NoItemsCall
    /\ NoUrls
    /\ NoSearch
    /\ NoFetch
    /\ NoCatalog
    /\ NoSort
    /\ tokIn \in TextsOf(MaxPieces)
    /\ tokOnce = <<>>
    /\ tokTwice = <<>>
    /\ tokPc = 0

\* _tokenize(s)
TokenizeOnce ==
    /\ tokPc = 0
    /\ tokOnce' = tokenize(tokIn)
    /\ tokPc' = 1
    /\ UNCHANGED <<tokIn, tokTwice>>
    /\ UNCHANGED notTokState

\* _tokenize of what the first call returned
TokenizeAgain ==
    /\ tokPc = 1
    /\ tokTwice' = tokenize(tokOnce)
    /\ tokPc' = 2
    /\ UNCHANGED <<tokIn, tokOnce>>
    /\ UNCHANGED notTokState

NextTokenize == TokenizeOnce \/ TokenizeAgain

SpecTokenize == InitTokenize /\ [][NextTokenize]_vars

(***************************************************************************)
(* scraper.py: search_products_all over an inventory that _ensure_loaded   *)
(* has loaded from a product file.                                         *)
(***************************************************************************)
\* the inventories of the product files of at most MaxItems rows
Inventories ==
    {load_items_from_file(read_rows(ProductFile(1, ids))) : ids \in ProductRowLists(MaxItems)}

\* the search terms and the sorts of the calls
SearchTerms == {<<>>, <<"T", "I", "N">>, <<" ", "p", "i", "k", "a", " ", "b", "o", "x">>}

Sorts == {"bestsellers", "price_asc", "price_desc", "alpha"}

InitSort ==
    /\ InitPrices
    /\ NoSimilarityCall
    /\ InitScraper
    /\ NoBuild
    /\ NoItemsCall
    /\ NoUrls
    /\ NoSearch
    /\ NoFetch
    /\ NoCatalog
    /\ NoTokenize
    /\ sortItems \in Inventories
    /\ sortTerm = <<>>
    /\ sortMode = "bestsellers"
    /\ sortOut = <<>>
    /\ sortDone = FALSE

\* search_products_all(q, sort): _filter_sort(list(_ITEMS), search_term=q, sort=sort)
SearchProductsAll ==
    /\ \E q \in SearchTerms, sort \in Sorts :
          /\ sortTerm' = q
          /\ sortMode' = sort
          /\ sortOut' = filter_sort(sortItems, q, sort)
    /\ sortDone' = TRUE
    /\ UNCHANGED sortItems
    /\ UNCHANGED notSortState

NextSort == SearchProductsAll

SpecSort == InitSort /\ [][NextSort]_vars

(***************************************************************************)
(* scraper.py: the public operations, each of which calls _ensure_loaded   *)
(* and then reads _ITEMS, run by several threads while product files are   *)
(* written.                                                                *)
(***************************************************************************)
\* _find_latest_file: the path of greatest mtime, None in an empty directory
NewestOf(fs, present) ==
    IF present = {} THEN 0
    ELSE CHOOSE p \in present : \A q \in present : fs[q].mtime <= fs[p].mtime

chosen_path(fs) == NewestOf(fs, {p \in Paths : fs[p].mtime > 0})

\* a test that reloads on an equal mtime too
needs_reload_ge(path, mtime, last_path, last_mtime) ==
    path # last_path \/ mtime >= last_mtime

\* a test that looks at the path alone
needs_reload_new_path(path, mtime, last_path, last_mtime) ==
    path # last_path

\* a test that reloads on any mtime other than the last-seen one
needs_reload_on_any_change(path, mtime, last_path, last_mtime) ==
    path # last_path \/ mtime # last_mtime

\* "if path != _LAST_PATH or mtime > _LAST_MTIME" (line 223)
needs_reload(path, mtime, last_path, last_mtime) ==
    path # last_path \/ mtime > last_mtime

\* a product file is written: it is created or rewritten, and is the newest
WriteFile ==
    /\ Len(history) < MaxWrites
    /\ \E p \in Paths, c \in 1..Len(CatalogContents) :
          /\ files' = [files EXCEPT ![p] = [mtime |-> Len(history) + 1, content |-> c]]
          /\ history' = Append(history, c)
    /\ UNCHANGED <<scraperVars, callVars, dataLoaderVars>>

\* a public operation is called and its _ensure_loaded enters "with _LOCK"
Acquire(t) ==
    /\ callPc[t] = "idle"
    /\ LOCK = 0
    /\ LOCK' = t
    /\ callPc' = [callPc EXCEPT ![t] = "path"]
    /\ callStart' = [callStart EXCEPT ![t] = Len(history)]
    /\ callStale' = [callStale EXCEPT ![t] =
                        /\ LAST_PATH # 0
                        /\ chosen_path(files) = LAST_PATH
                        /\ files[LAST_PATH].mtime > LAST_MTIME]
    /\ UNCHANGED <<ITEMS, LAST_PATH, LAST_MTIME, callPath, callMtime, callItems, rebuilds>>
    /\ UNCHANGED <<fileVars, dataLoaderVars>>

\* lines 215-218 without a file: the lock is released, nothing is changed
NoFileFound(t) ==
    /\ callPc[t] = "path"
    /\ chosen_path(files) = 0
    /\ LOCK' = 0
    /\ callPc' = [callPc EXCEPT ![t] = "read"]
    /\ UNCHANGED <<ITEMS, LAST_PATH, LAST_MTIME, callPath, callMtime, callItems,
                   callStart, callStale, rebuilds>>
    /\ UNCHANGED <<fileVars, dataLoaderVars>>

\* line 215: path = _chosen_path()
ChoosePath(t) ==
    /\ callPc[t] = "path"
    /\ chosen_path(files) # 0
    /\ callPath' = [callPath EXCEPT ![t] = chosen_path(files)]
    /\ callPc' = [callPc EXCEPT ![t] = "mtime"]
    /\ UNCHANGED <<scraperVars, callMtime, callItems, callStart, callStale, rebuilds>>
    /\ UNCHANGED <<fileVars, dataLoaderVars>>

\* lines 220-223 when the test fails: nothing is changed, the lock is released
FoundFresh(t) ==
    /\ callPc[t] = "mtime"
    /\ ~needs_reload(callPath[t], files[callPath[t]].mtime, LAST_PATH, LAST_MTIME)
    /\ callMtime' = [callMtime EXCEPT ![t] = files[callPath[t]].mtime]
    /\ LOCK' = 0
    /\ callPc' = [callPc EXCEPT ![t] = "read"]
    /\ UNCHANGED <<ITEMS, LAST_PATH, LAST_MTIME, callPath, callItems, callStart,
                   callStale, rebuilds>>
    /\ UNCHANGED <<fileVars, dataLoaderVars>>

\* lines 220-223 when the test holds: a rebuild follows (of a file that is
\* gone by now, getmtime raises and mtime is 0.0, lines 221-222)
FoundStale(t) ==
    /\ callPc[t] = "mtime"
    /\ needs_reload(callPath[t], files[callPath[t]].mtime, LAST_PATH, LAST_MTIME)
    /\ callMtime' = [callMtime EXCEPT ![t] = files[callPath[t]].mtime]
    /\ rebuilds' = IF files[callPath[t]].mtime = 0 THEN rebuilds
                    ELSE [rebuilds EXCEPT ![files[callPath[t]].mtime] = @ + 1]
    /\ callPc' = [callPc EXCEPT ![t] = "load"]
    /\ UNCHANGED <<scraperVars, callPath, callItems, callStart, callStale>>
    /\ UNCHANGED <<fileVars, dataLoaderVars>>

\* lines 224-225: the file is read as it is now, _ITEMS is bound to the new
\* list, the path and the mtime observed before are recorded; the lock is
\* released.  _read_rows of a file that is gone by now gives no rows (lines
\* 160-165)
Rebuild(t) ==
    /\ callPc[t] = "load"
    /\ ITEMS' = IF files[callPath[t]].mtime = 0 THEN <<>>
               ELSE ItemsOfContent[files[callPath[t]].content]
    /\ LAST_PATH' = callPath[t]
    /\ LAST_MTIME' = callMtime[t]
    /\ LOCK' = 0
    /\ callPc' = [callPc EXCEPT ![t] = "read"]
    /\ UNCHANGED <<callPath, callMtime, callItems, callStart, callStale, rebuilds>>
    /\ UNCHANGED <<fileVars, dataLoaderVars>>

\* "list(_ITEMS)" of search_products_all and suggest_titles, "for it in _ITEMS"
\* of get_related_products
ReadItems(t) ==
    /\ callPc[t] = "read"
    /\ callItems' = [callItems EXCEPT ![t] = ITEMS]
    /\ callPc' = [callPc EXCEPT ![t] = "done"]
    /\ UNCHANGED <<scraperVars, callPath, callMtime, callStart, callStale, rebuilds>>
    /\ UNCHANGED <<fileVars, dataLoaderVars>>

\* the operation returns
Return(t) ==
    /\ callPc[t] = "done"
    /\ callPc' = [callPc EXCEPT ![t] = "idle"]
    /\ callPath' = [callPath EXCEPT ![t] = 0]
    /\ callMtime' = [callMtime EXCEPT ![t] = 0]
    /\ callItems' = [callItems EXCEPT ![t] = <<>>]
    /\ callStart' = [callStart EXCEPT ![t] = 0]
    /\ callStale' = [callStale EXCEPT ![t] = FALSE]
    /\ UNCHANGED <<scraperVars, rebuilds, fileVars, dataLoaderVars>>

NextScraper ==
    \/ WriteFile
    \/ \E t \in Threads : Acquire(t)
    \/ \E t \in Threads : NoFileFound(t)
    \/ \E t \in Threads : ChoosePath(t)
    \/ \E t \in Threads : FoundFresh(t)
    \/ \E t \in Threads : FoundStale(t)
    \/ \E t \in Threads : Rebuild(t)
    \/ \E t \in Threads : ReadItems(t)
    \/ \E t \in Threads : Return(t)

SpecScraper == Init /\ [][NextScraper]_vars

\* a product file is removed from the directory
RemoveFile ==
    /\ \E p \in Paths :
          /\ files[p].mtime > 0
          /\ files' = [files EXCEPT ![p] = [mtime |-> 0, content |-> 1]]
    /\ UNCHANGED <<history, scraperVars, callVars, dataLoaderVars>>

\* the two callers of the public operations while files are removed
Callers == {1, 2}

NextRemoval ==
    \/ WriteFile
    \/ RemoveFile
    \/ \E t \in Callers : Acquire(t)
    \/ \E t \in Callers : NoFileFound(t)
    \/ \E t \in Callers : ChoosePath(t)
    \/ \E t \in Callers : FoundFresh(t)
    \/ \E t \in Callers : FoundStale(t)
    \/ \E t \in Callers : Rebuild(t)
    \/ \E t \in Callers : ReadItems(t)
    \/ \E t \in Callers : Return(t)

\* the public operations while product files are written and removed
SpecRemoval == Init /\ [][NextRemoval]_vars

(***************************************************************************)
(* What the rows of a file say the index must hold, stated from the rows   *)
(* alone: the index is compared with it, never built from it.              *)
(***************************************************************************)
\* the parsed rows of the loaded file, in file order
LoadedRows == [i \in 1..Len(loadedFile.rows) |-> ParsedPriceRows[loadedFile.rows[i]]]

\* the positions of the rows the build does not skip
KeptRows == {i \in 1..Len(loadedFile.rows) : ~LoadedRows[i].skip}

NamesOf(p) == {p.name_norm_base, p.name_norm_raw}

\* the record a row contributes
RecordOf(p) ==
    [market |-> p.market, psa9 |-> p.psa9, psa10 |-> p.psa10,
     currency |-> DetectedCurrency[loadedFile.rows], source |-> "excel"]

\* a stored record without its internal score
Fields(rec) == [f \in (DOMAIN rec) \ {"_score"} |-> rec[f]]

\* whether row p is inserted at key through its own number key
TargetsExactly(p, key) ==
    key[1] \in NamesOf(p) /\ key[2] = p.set_norm /\ key[3] = p.num_norm

\* whether row p is inserted at key through its digits-only fallback key
TargetsByDigits(p, key) ==
    /\ key[1] \in NamesOf(p) /\ key[2] = p.set_norm
    /\ key[3] = digits_only(p.num_norm)
    /\ key[3] # <<>> /\ key[3] # p.num_norm

Targets(p, key) == TargetsExactly(p, key) \/ TargetsByDigits(p, key)

\* the positions of the kept rows that target a key
TargetingRows(key) == {i \in KeptRows : Targets(LoadedRows[i], key)}

\* the keys the rows of the loaded file target
DerivedKeys ==
    UNION {{<<nm, LoadedRows[i].set_norm, LoadedRows[i].num_norm>> :
                nm \in NamesOf(LoadedRows[i])} : i \in KeptRows}
    \cup UNION {{<<nm, LoadedRows[i].set_norm, digits_only(LoadedRows[i].num_norm)>> :
                    nm \in NamesOf(LoadedRows[i])} :
                i \in {j \in KeptRows :
                          /\ digits_only(LoadedRows[j].num_norm) # <<>>
                          /\ digits_only(LoadedRows[j].num_norm) # LoadedRows[j].num_norm}}

\* the (name, number) pairs of the rows of the loaded file
DerivedPairs ==
    UNION {{<<nm, LoadedRows[i].num_norm>> : nm \in NamesOf(LoadedRows[i])} : i \in KeptRows}

\* the (set, record) of the kept rows with this (name, number), in file order from row i on
RECURSIVE DerivedCandidates(_, _)
DerivedCandidates(pair, i) ==
    IF i > Len(loadedFile.rows) THEN <<>>
    ELSE (IF /\ i \in KeptRows
             /\ pair[1] \in NamesOf(LoadedRows[i])
             /\ pair[2] = LoadedRows[i].num_norm
          THEN <<<<LoadedRows[i].set_norm, RecordOf(LoadedRows[i])>>>>
          ELSE <<>>)
         \o DerivedCandidates(pair, i + 1)

(***************************************************************************)
(* C4                                                                      *)
(***************************************************************************)
\* C4: after refresh_price_data the price map, the presence set and the
\* (name, number) multimap hold exactly the entries derived from the rows of
\* the file that refresh found newest; nothing of a file loaded before remains.
C4_RefreshRebuildsFromNewestFile ==
    /\ DOMAIN price_map = DerivedKeys
    /\ \A key \in DOMAIN price_map :
          \E i \in TargetingRows(key) : Fields(price_map[key]) = RecordOf(LoadedRows[i])
    /\ price_index = DerivedPairs
    /\ DOMAIN by_name_num = DerivedPairs
    /\ \A pair \in DOMAIN by_name_num : by_name_num[pair] = DerivedCandidates(pair, 1)

\* C4 witness: a refresh has replaced the non-empty index of another file by a
\* non-empty index
C4_Witness ==
    /\ reloaded
    /\ loadedFile.present
    /\ price_map # <<>>

(***************************************************************************)
(* C5                                                                      *)
(***************************************************************************)
\* the least position of a set of positions
FirstOf(rows) == CHOOSE i \in rows : \A j \in rows : i <= j

\* the score a row is inserted with at a key it targets: its quality score at
\* its own number key, 0.1 less at its digits-only fallback key (in tenths)
InsertionScore(p, key) == IF TargetsExactly(p, key) THEN p.score ELSE p.score - 1

\* the rows of maximal quality score among those that target a key
BestByQuality(key) ==
    {i \in TargetingRows(key) :
        \A j \in TargetingRows(key) : LoadedRows[i].score >= LoadedRows[j].score}

\* the rows of maximal insertion score among those that target a key
BestByInsertion(key) ==
    {i \in TargetingRows(key) :
        \A j \in TargetingRows(key) :
            InsertionScore(LoadedRows[i], key) >= InsertionScore(LoadedRows[j], key)}

\* C5 as stated: after the build every key of the price map holds the record of
\* the first row, in file order, among the rows of maximal quality score that
\* target that key.
C5_FirstOfMaximalQualityScore ==
    \A key \in DOMAIN price_map :
        Fields(price_map[key]) = RecordOf(LoadedRows[FirstOf(BestByQuality(key))])

\* C5 as amended: a row replaces the record stored at a key only if the score it
\* is inserted with there (its quality score, less 0.1 at its digits-only
\* fallback key) is strictly greater than the stored score; so every key holds,
\* with that score, the record of the first row in file order among the rows of
\* maximal insertion score that target the key.
C5_FirstOfMaximalInsertionScore ==
    \A key \in DOMAIN price_map :
        /\ Fields(price_map[key]) = RecordOf(LoadedRows[FirstOf(BestByInsertion(key))])
        /\ price_map[key]["_score"]
              = InsertionScore(LoadedRows[FirstOf(BestByInsertion(key))], key)

\* C5 witness: two rows with different records and the same maximal insertion
\* score target one key, and the key holds the record of the earlier one
C5_Witness ==
    \E key \in DOMAIN price_map :
        \E i, j \in BestByInsertion(key) :
            /\ i < j
            /\ RecordOf(LoadedRows[i]) # RecordOf(LoadedRows[j])
            /\ Fields(price_map[key]) = RecordOf(LoadedRows[i])

(***************************************************************************)
(* C6                                                                      *)
(***************************************************************************)
\* a non-variant row with only market populated
IsPlainMarketOnly(p) ==
    ~p.skip /\ ~p.is_variant /\ p.market # NoPrice /\ p.psa9 = NoPrice /\ p.psa10 = NoPrice

\* a variant-tagged row with psa9 and psa10 populated
IsVariantGraded(p) ==
    ~p.skip /\ p.is_variant /\ p.psa9 # NoPrice /\ p.psa10 # NoPrice

CanonicalKey(p) == <<p.name_norm_base, p.set_norm, p.num_norm>>

\* the key get_price_override probes first for the last lookup
QueriedKey ==
    <<ParsedQueries[lastQuery].name_norm, ParsedQueries[lastQuery].set_norm,
      ParsedQueries[lastQuery].num_norm>>

\* rows a and b of the loaded file are the two rows of the claim, and no other
\* row of the file targets their key
PlainAndVariantAt(a, b) ==
    /\ IsPlainMarketOnly(LoadedRows[a])
    /\ IsVariantGraded(LoadedRows[b])
    /\ CanonicalKey(LoadedRows[a]) = CanonicalKey(LoadedRows[b])
    /\ \A i \in TargetingRows(CanonicalKey(LoadedRows[a])) :
          loadedFile.rows[i] \in {loadedFile.rows[a], loadedFile.rows[b]}

\* C6: when a non-variant row with only market populated and a variant-tagged
\* row with psa9 and psa10 populated target the same canonical key,
\* get_price_override for that key returns the values of the variant-tagged
\* row, whichever of the two comes first in the file.
C6_RicherVariantRowWins ==
    \A a, b \in KeptRows :
        (/\ lastQuery # 0
         /\ PlainAndVariantAt(a, b)
         /\ QueriedKey = CanonicalKey(LoadedRows[a]))
        => /\ lastResult # None
           /\ Fields(lastResult) = RecordOf(LoadedRows[b])

\* C6 witness: the plain row comes first, the variant row second, and the
\* lookup for their key has returned the variant row's values
C6_Witness ==
    /\ lastQuery # 0
    /\ lastResult # None
    /\ \E a, b \in KeptRows :
          /\ a < b
          /\ PlainAndVariantAt(a, b)
          /\ QueriedKey = CanonicalKey(LoadedRows[a])
          /\ Fields(lastResult) = RecordOf(LoadedRows[b])

(***************************************************************************)
(* C7                                                                      *)
(***************************************************************************)
\* a number as written, without its '/total' suffix and its leading '#'
BareNumber(number) == LStripHash(BeforeSlash(Strip(number)))

\* the last lookup was called with the name, the set name and the number of
\* row p, the number with or without its '/total' suffix or a leading '#'
AsksForRow(p) ==
    /\ lastQuery # 0
    /\ Queries[lastQuery].name = p.card_name
    /\ Queries[lastQuery].set = p.set_name
    /\ BareNumber(Queries[lastQuery].number) = BareNumber(p.number_raw)

\* C7 as stated: for every row the build does not skip, get_price_override
\* called with the row's own name, set name and number returns a record of a
\* row with the same canonical key, never None.
C7_OwnRowIsFound ==
    \A i \in KeptRows :
        AsksForRow(LoadedRows[i])
        => /\ lastResult # None
           /\ \E j \in KeptRows :
                 /\ CanonicalKey(LoadedRows[j]) = CanonicalKey(LoadedRows[i])
                 /\ Fields(lastResult) = RecordOf(LoadedRows[j])

(***************************************************************************)
(* C8                                                                      *)
(***************************************************************************)
\* the name keys and the non-empty number keys of the last lookup
QueriedNames == {ParsedQueries[lastQuery].name_norm, ParsedQueries[lastQuery].name_raw}

QueriedNumbers ==
    {ParsedQueries[lastQuery].num_norm, ParsedQueries[lastQuery].num_digits} \ {<<>>}

\* none of the exact keys of the last lookup is in the price map
NoExactKey ==
    \A nm \in QueriedNames, nn \in QueriedNumbers :
        <<nm, ParsedQueries[lastQuery].set_norm, nn>> \notin DOMAIN price_map

\* the kept rows with the (name key, number key) of the last lookup
SameNameAndNumber ==
    {i \in KeptRows :
        /\ NamesOf(LoadedRows[i]) \cap QueriedNames # {}
        /\ LoadedRows[i].num_norm \in QueriedNumbers}

\* set_similarity of the queried set key with the set key of row i
SimilarityTo(i) == set_similarity(ParsedQueries[lastQuery].set_norm, LoadedRows[i].set_norm)

\* similarity x is at least 0.72
AtLeast072(x) == 100 * x.num >= 72 * x.den

\* C8: when no exact key matches, get_price_override returns a record only if
\* some indexed row with the same (name key, number key) has a set key whose
\* set_similarity with the queried set key is at least 0.72, and the record
\* belongs to a candidate of highest similarity; when the best similarity is
\* below 0.72 it returns None.
C8_FuzzyMatchNeedsThreshold ==
    (lastQuery # 0 /\ NoExactKey)
    => /\ lastResult # None
          => \E i \in SameNameAndNumber :
                /\ AtLeast072(SimilarityTo(i))
                /\ \A j \in SameNameAndNumber : FracGE(SimilarityTo(i), SimilarityTo(j))
                /\ lastResult = RecordOf(LoadedRows[i])
       /\ (\A i \in SameNameAndNumber : ~AtLeast072(SimilarityTo(i)))
          => lastResult = None

\* C8 witness: no exact key matched, a candidate reached 0.72 and its record
\* was returned
C8_Witness ==
    /\ lastQuery # 0
    /\ NoExactKey
    /\ lastResult # None
    /\ \E i \in SameNameAndNumber :
          AtLeast072(SimilarityTo(i)) /\ lastResult = RecordOf(LoadedRows[i])

\* a lookup whose best candidate stayed below 0.72 returned None
C8_RejectedReached ==
    /\ lastQuery # 0
    /\ NoExactKey
    /\ SameNameAndNumber # {}
    /\ lastResult = None

(***************************************************************************)
(* C10                                                                     *)
(***************************************************************************)
\* a row of the price data has the (name, number) identity of the last lookup
IdentityExists ==
    \E i \in KeptRows :
        /\ NamesOf(LoadedRows[i]) \cap QueriedNames # {}
        /\ LoadedRows[i].num_norm
              \in {ParsedQueries[lastQuery].num_norm, ParsedQueries[lastQuery].num_digits}

\* C10 as stated: get_price_override_ex returns (record, 'found') exactly when
\* get_price_override returns a record; on a miss it returns 'unmatched_set' if
\* a row with the query's (name, number) identity exists for any set, and
\* 'absent_in_csv' only if no row of any set has that identity.
C10_ReasonTellsWhyMissed ==
    lastReason # ""
    => /\ lastReason = "found" <=> lastResult # None
       /\ lastResult \in {get_price_override(Index, ParsedQueries[lastQuery], ord) :
                              ord \in SetOrders}
       /\ lastResult = None => (lastReason = "unmatched_set" <=> IdentityExists)
       /\ lastResult = None => (lastReason = "absent_in_csv" <=> ~IdentityExists)

(***************************************************************************)
(* C1                                                                      *)
(***************************************************************************)
\* what get_price_override can return for query q on the index idx
ResultsOn(idx, q) == {get_price_override(idx, ParsedQueries[q], ord) : ord \in SetOrders}

\* C1 as stated: a get_price_override that runs while _load_price_data is
\* rebuilding the index returns what it would return on the complete index of
\* before the refresh or on the complete index of after it.
C1_LookupSeesCompleteIndex ==
    lastQuery # 0
    => lastResult \in ResultsOn(preIndex, lastQuery)
                      \cup ResultsOn(load_price_data(EmptyIndex, loadedFile), lastQuery)

(***************************************************************************)
(* C9                                                                      *)
(***************************************************************************)
\* the call was _set_similarity(SetKeyTexts[a], SetKeyTexts[b]) and has returned
SimilarityOf(a, b) == simA = a /\ simB = b /\ simScore # NoScore

\* C9 as stated: set_similarity("base set", "base") exceeds 0.72 and the fuzzy
\* fallback accepts the match; set_similarity("base set", "jungle") is below
\* 0.72 and is rejected.
C9_BaseSetMatchesBase ==
    /\ SimilarityOf(1, 2) => (FracGT(simScore, FuzzyThreshold) /\ simAccepted)
    /\ SimilarityOf(1, 3) => (~FracGE(simScore, FuzzyThreshold) /\ ~simAccepted)

\* C9 amended: set_similarity("base set", "base") is 0.6 * 1/2 + 0.4 * 8/12 =
\* 17/30, below 0.72, and the fuzzy fallback rejects the match, as it rejects
\* "base set" against "jungle", whose similarity 2/35 is below 0.72 too.
C9_BaseSetDoesNotMatchBase ==
    /\ SimilarityOf(1, 2)
       => (simScore.num * 30 = 17 * simScore.den /\ ~simAccepted)
    /\ SimilarityOf(1, 3)
       => (simScore.num * 35 = 2 * simScore.den /\ ~simAccepted)

\* C9 witness: the similarity of "base set" and "base" has been computed and
\* the match was rejected
C9_Witness == SimilarityOf(1, 2) /\ ~simAccepted /\ ~FracGE(simScore, FuzzyThreshold)

\* a pair of different set keys is accepted by the fuzzy step
C9_AcceptedPairReached == simA # simB /\ simScore # NoScore /\ simAccepted

(***************************************************************************)
(* C2                                                                      *)
(***************************************************************************)
\* the threads inside the "with _LOCK" block of _ensure_loaded
InsideLock == {t \in Threads : callPc[t] \in {"path", "mtime", "load"}}

\* the threads whose _ensure_loaded has compared a file with what was last loaded
PastCheck == {t \in Threads : callPc[t] \in {"load", "read", "done"} /\ callMtime[t] > 0}

\* C2: at most one caller is inside the check-staleness-and-rebuild sequence
\* of _ensure_loaded at any time, and for one change of the backing file (a
\* write, which gives the newest file a new mtime) the callers that observe
\* it perform exactly one rebuild together.
C2_OneCallerInsideOneRebuildPerChange ==
    /\ Cardinality(InsideLock) <= 1
    /\ \A t \in InsideLock : LOCK = t
    /\ \A m \in 1..MaxWrites : rebuilds[m] <= 1
    /\ \A t \in PastCheck : rebuilds[callMtime[t]] = 1

\* C2 witness: two callers have observed the same change of the file, and one
\* rebuild was made for it
C2_Witness ==
    \E t1, t2 \in Threads :
        /\ t1 # t2
        /\ callPc[t1] = "done" /\ callPc[t2] = "done"
        /\ callMtime[t1] > 0 /\ callMtime[t1] = callMtime[t2]
        /\ rebuilds[callMtime[t1]] = 1

(***************************************************************************)
(* C3                                                                      *)
(***************************************************************************)
\* the inventories of the contents that were the newest file's at some time
\* since thread t took the lock
FreshInventories(t) ==
    {ItemsOfContent[history[v]] : v \in callStart[t]..Len(history)}

\* C3: a public operation whose call finds a product file works on an
\* inventory rebuilt from rows that the newest file held during the call, in
\* particular after the file's mtime has advanced past the last-seen value;
\* the inventory is exactly the items of those rows, so that no item of the
\* list it replaces is carried over.
C3_ReloadReplacesInventory ==
    \A t \in Threads :
        (callPc[t] = "done" /\ callStart[t] >= 1) => callItems[t] \in FreshInventories(t)

\* C3 witness: a call that began after the mtime of the loaded file had
\* advanced has read an inventory that is the one of the file's present rows
\* and differs from the one of the rows before
C3_Witness ==
    \E t \in Threads :
        /\ callPc[t] = "done"
        /\ callStale[t]
        /\ callItems[t] = ItemsOfContent[history[Len(history)]]
        /\ \E v \in 1..(Len(history) - 1) : ItemsOfContent[history[v]] # callItems[t]

(***************************************************************************)
(* C11: what a caller of get_price_override receives.                      *)
(***************************************************************************)
\* the fields of a price record that callers are meant to see
PublicFields == {"market", "psa9", "psa10", "currency", "source"}

\* C11: the record get_price_override returns, on the exact and on the fuzzy
\* path, carries the fields market, psa9, psa10, currency and source and no
\* other, so the internal quality score does not reach the caller.
C11_ResultHidesQualityScore ==
    (lastQuery # 0 /\ lastResult # None) => DOMAIN lastResult = PublicFields

\* a lookup answered by the fuzzy step returns a record without the score
C11_FuzzyResultReached ==
    /\ lastQuery # 0
    /\ lastResult # None
    /\ ExactHit(price_map, ParsedQueries[lastQuery]) = 0
    /\ DOMAIN lastResult = PublicFields

(***************************************************************************)
(* C12                                                                     *)
(***************************************************************************)
\* the fields of a row once lines 490-506 have settled them, from the text
\* of its cells
SettledFields(row) == ParsePriceRow(row)

\* whether the name, the set or the number of a row ends up empty
EndsUpEmpty(row) ==
    \/ SettledFields(row).card_name = <<>>
    \/ SettledFields(row).set_name = <<>>
    \/ SettledFields(row).number_raw = <<>>

\* C12: a price row whose name, set or number ends up empty is skipped
\* entirely: the row adds no key to the price map, no pair to the presence set
\* and no candidate to the multimap, and the build goes on without an error.
C12_EmptyFieldRowIsSkipped ==
    (buildLast # 0 /\ EndsUpEmpty(BuildRows[buildLast]))
    => (buildPc # "raised" /\ Index = buildBefore)

\* the csv reader skips such a row and indexes the row after it
C12_SkippedThenIndexedReached ==
    /\ buildReader = "csv"
    /\ buildPc = "done"
    /\ Len(buildRows) = 2
    /\ EndsUpEmpty(BuildRows[buildRows[1]])
    /\ price_map # <<>>

\* under pandas a row without a number is indexed under the number key "nan"
C12_IndexedUnderNanReached ==
    /\ buildReader = "pandas"
    /\ buildLast # 0
    /\ EndsUpEmpty(BuildRows[buildLast])
    /\ buildPc # "raised"
    /\ Index # buildBefore

(***************************************************************************)
(* C13                                                                     *)
(***************************************************************************)
\* C13: when the load finds no price file, it leaves an empty index and every
\* get_price_override returns None until a later refresh finds a file, also
\* when a file was loaded before and has disappeared since.
C13_NoFileLeavesEmptyIndex ==
    ~loadedFile.present
    => /\ Index = EmptyIndex
       /\ lastQuery # 0 => lastResult = None

\* C13 witness: a file was loaded, the next refresh found none, and a lookup
\* made after it returned None
C13_Witness ==
    /\ reloaded
    /\ ~loadedFile.present
    /\ lastQuery # 0
    /\ lastResult = None

(***************************************************************************)
(* C14                                                                     *)
(***************************************************************************)
\* the items of the file handed over, before de-duplication
ItemsRead == ItemsFrom(read_rows(itemsFile), 1)

\* the (title, url) pairs of the rows of ProductRows, stripped as
\* _normalize_row strips them
TitlesAndUrls ==
    {<<Strip(ProductRows[r][1]), Strip(ProductRows[r][3])>> : r \in 1..Len(ProductRows)}

\* the normalized title and the canonical URL of each of them, computed once
NormalizedPairs == <<>> @@ [x \in TitlesAndUrls |-> <<norm_title(x[1]), canon_url(x[2])>>]

NormalizedPair(title, url) ==
    IF <<title, url>> \in DOMAIN NormalizedPairs THEN NormalizedPairs[<<title, url>>]
    ELSE <<norm_title(title), canon_url(url)>>

\* the key of the claim: normalized title, canonical URL, displayed price
KeyOfClaim(it) == NormalizedPair(it.title, it.url) \o <<it.price>>

\* the positions of the items that no earlier item shares its key with
FirstOfKey(items) ==
    {i \in 1..Len(items) : \A j \in 1..(i - 1) : KeyOfClaim(items[j]) # KeyOfClaim(items[i])}

\* the k-th least position of a set of positions
Nth(ps, k) == CHOOSE i \in ps : Cardinality({j \in ps : j <= i}) = k

\* an item as a caller sees it
Visible(it) ==
    [title |-> it.title, image_url |-> it.image_url, price |-> it.price,
     price_float |-> it.price_float, url |-> it.url, source |-> it.source]

\* C14: de-duplication keeps, for each key (normalized title, canonical URL,
\* displayed price string), exactly the first item in input order and drops
\* every later item with that key; the kept items stay in input order, so
\* items that differ in the price string alone all survive.
C14_FirstOfEachKeyInOrder ==
    itemsDone
    => /\ Len(itemsOut) = Cardinality(FirstOfKey(ItemsRead))
       /\ \A k \in 1..Len(itemsOut) :
             itemsOut[k] = Visible(ItemsRead[Nth(FirstOfKey(ItemsRead), k)])

\* C14 witness: of three items with one title and one URL, the two that agree
\* on the price string collapsed to the first and the third one survived
C14_Witness ==
    /\ itemsDone
    /\ Len(ItemsRead) = 3
    /\ Len(itemsOut) = 2
    /\ NormalizedPair(itemsOut[1].title, itemsOut[1].url)
          = NormalizedPair(itemsOut[2].title, itemsOut[2].url)
    /\ itemsOut[1].price # itemsOut[2].price
    /\ itemsOut[1] = Visible(ItemsRead[1])

(***************************************************************************)
(* C15                                                                     *)
(***************************************************************************)
\* C15: two URLs that differ only in the letter case of the host, a leading
\* "www." on the host, a trailing slash on the path, the query string or the
\* fragment have the same canonical URL, and two items with one title and one
\* price that hold them collapse to one.
C15_SpellingsCollapse ==
    urlDone => (urlCanon[1] = urlCanon[2] /\ Len(urlKept) = 1)

\* "https://EXAMPLE.COM/Item%20x/?utm=1" and "https://www.example.com/Item%20x"
\* have one canonical URL and their rows collapse
C15_ExampleCollapsesReached ==
    /\ urlDone
    /\ urlBase = 4
    /\ urlA = [upper |-> TRUE, www |-> FALSE, slash |-> TRUE, query |-> TRUE, fragment |-> FALSE]
    /\ urlB = [upper |-> FALSE, www |-> TRUE, slash |-> FALSE, query |-> FALSE, fragment |-> FALSE]
    /\ urlCanon[1] = urlCanon[2]
    /\ Len(urlKept) = 1

\* the claim over the URLs whose last path segment holds no ";"
C15_WithoutParamsCollapse ==
    (urlDone /\ FindChar(BaseUrls[urlBase].path, {";"}) = 0)
    => (urlCanon[1] = urlCanon[2] /\ Len(urlKept) = 1)

(***************************************************************************)
(* C16, C17, C18                                                           *)
(***************************************************************************)
\* the score record of a card of the catalog under the query of the search
ScoreAt(c) == CardScores[<<searchQuery, c>>]

\* the cards of the catalog, and those the search returned
CatalogSet == {searchCards[i] : i \in 1..Len(searchCards)}

Returned16 == {searchOut[i] : i \in 1..Len(searchOut)}

\* the pair (score, tie-break) of card a is strictly greater than that of b
PairGreater(a, b) ==
    \/ ScoreAt(a).score > ScoreAt(b).score
    \/ ScoreAt(a).score = ScoreAt(b).score /\ ScoreAt(a).tie_breaker > ScoreAt(b).tie_breaker

\* C16: search_local_cards returns at most limit cards, each with a score
\* above 0; the pair (score, tie-break) never increases along the list, and no
\* scored card left out has a pair strictly greater than a returned card's.
C16_BestCardsInOrder ==
    searchDone
    => /\ Len(searchOut) <= searchLimit
       /\ \A i \in 1..Len(searchOut) :
             /\ searchOut[i] \in CatalogSet
             /\ ~ScoreAt(searchOut[i]).skipped
             /\ ScoreAt(searchOut[i]).score > 0
       /\ \A i \in 1..Len(searchOut), j \in 1..Len(searchOut) :
             i < j => (searchOut[i] # searchOut[j] /\ ~PairGreater(searchOut[j], searchOut[i]))
       /\ \A c \in CatalogSet \ Returned16 :
             ~ScoreAt(c).skipped => \A r \in Returned16 : ~PairGreater(c, r)

\* C16 witness: the limit cut off a scored card, and two returned cards of
\* one score are ordered by the tie-breaker
C16_Witness ==
    /\ searchDone
    /\ Len(searchOut) = 2
    /\ searchLimit = 2
    /\ ScoreAt(searchOut[1]).score = ScoreAt(searchOut[2]).score
    /\ ScoreAt(searchOut[1]).tie_breaker > ScoreAt(searchOut[2]).tie_breaker
    /\ searchCards[1] = searchOut[2]
    /\ \E c \in CatalogSet \ Returned16 : ~ScoreAt(c).skipped /\ ScoreAt(c).score > 0


\* the text tokens and the digits of the query of the search
QueryTokens == ParsedSearchQueries[searchQuery].search_tokens

QueryDigits == ParsedSearchQueries[searchQuery].search_num_digits

\* the name tokens and the set tokens of a card
NameTokens(c) == token_set(LoadedCards[c].normalized_name)

SetTokens(c) == token_set(LoadedCards[c].normalized_set)

\* whether some text token of the query is part of a name or set token of the card
SomeTokenMatches(c) ==
    \E s \in QueryTokens, t \in NameTokens(c) \cup SetTokens(c) : Contains(t, s)

\* C17: when the query has a text token and none of its text tokens is a
\* substring of a name token or a set token of a card, the card is not
\* returned; a query whose text tokens match no card returns the empty list
\* whatever digits it holds.
C17_UnmatchedTextExcludes ==
    (searchDone /\ QueryTokens # {})
    => /\ \A c \in CatalogSet : ~SomeTokenMatches(c) => c \notin Returned16
       /\ (\A c \in CatalogSet : ~SomeTokenMatches(c)) => searchOut = <<>>

\* C17 witness: the query "zzz 4" over a catalog that holds a card numbered 4
\* returned nothing
C17_Witness ==
    /\ searchDone
    /\ QueryTokens # {}
    /\ \E c \in CatalogSet : LoadedCards[c].normalized_number_digits = QueryDigits
    /\ \A c \in CatalogSet : ~SomeTokenMatches(c)
    /\ searchOut = <<>>

\* the position of a returned card in the result
PlaceOf(c) == CHOOSE i \in 1..Len(searchOut) : searchOut[i] = c

\* two cards of the catalog with the same name tokens and the same set
\* tokens, of which a alone has the digits of the query as its number
OnlyFirstHasNumber(a, b) ==
    /\ a \in CatalogSet /\ b \in CatalogSet
    /\ NameTokens(a) = NameTokens(b)
    /\ SetTokens(a) = SetTokens(b)
    /\ QueryDigits # <<>>
    /\ LoadedCards[a].normalized_number_digits = QueryDigits
    /\ LoadedCards[b].normalized_number_digits # QueryDigits

\* C18: of two catalog cards with identical name tokens and set tokens, the
\* one whose digits-only number equals the non-empty digit string of the
\* query scores exactly 50 more than the other and stands strictly before it
\* in the result.
C18_NumberMatchRanksFirst ==
    searchDone
    => \A a \in CatalogSet, b \in CatalogSet :
          OnlyFirstHasNumber(a, b)
          => /\ ScoreAt(a).score = ScoreAt(b).score + 50
             /\ ScoreAt(a).skipped = ScoreAt(b).skipped
             /\ b \in Returned16 => (a \in Returned16 /\ PlaceOf(a) < PlaceOf(b))

\* C18 witness: both cards were returned, the one with the number first
\* although it stands behind the other in the catalog
C18_Witness ==
    /\ searchDone
    /\ \E a \in Returned16, b \in Returned16 :
          /\ OnlyFirstHasNumber(a, b)
          /\ PlaceOf(a) < PlaceOf(b)
          /\ \E i \in 1..Len(searchCards), j \in 1..Len(searchCards) :
                i < j /\ searchCards[i] = b /\ searchCards[j] = a

(***************************************************************************)
(* C19: once a successful _fetch_json has cached an answer for a (url,     *)
(* params), a call with the same (url, params) made less than 600 seconds  *)
(* after the cached timestamp returns the cached data and issues no        *)
(* request, and a call made 600 seconds or more after it issues a request. *)
(***************************************************************************)
\* the call of t has returned and found an entry for its key when it was made
ReturnedOverEntry(t) == fetchPc[t] = "done" /\ fetchSeen[t] # None

\* how long after the cached timestamp the call of t was made
AgeAtCall(t) == fetchAt[t] - fetchSeen[t].ts

C19_CacheServesForTenMinutes ==
    \A t \in FetchCallers :
       ReturnedOverEntry(t)
       => IF AgeAtCall(t) < 600
          THEN fetchResult[t] = fetchSeen[t].data /\ fetchIssued[t] = 0
          ELSE fetchIssued[t] >= 1

\* one call made 599 seconds after the timestamp was served from the cache,
\* and another made 600 seconds after it has issued a request
C19_BothSidesOfExpiryReached ==
    \E t, u \in FetchCallers :
       /\ ReturnedOverEntry(t) /\ AgeAtCall(t) = 599
       /\ fetchIssued[t] = 0 /\ fetchResult[t] = fetchSeen[t].data
       /\ ReturnedOverEntry(u) /\ AgeAtCall(u) = 600
       /\ fetchIssued[u] = 1
       /\ fetchArgs[t].url = fetchArgs[u].url /\ fetchArgs[t].params = fetchArgs[u].params

(***************************************************************************)
(* C20: _fetch_json never lets a request failure out: it issues at most    *)
(* retries + 1 requests, after which a call whose requests all failed      *)
(* returns None for a single item and {"data": []} otherwise, and no       *)
(* failed request changes API_CACHE.                                       *)
(***************************************************************************)
\* the call of t has ended with every one of its requests failed
AllAttemptsFailed(t) == fetchPc[t] = "done" /\ fetchIssued[t] > 0 /\ fetchData[t] = None

\* no exception has left a call, no call has issued more than retries + 1
\* requests, and a call whose requests all failed has issued that many and
\* returned the empty value
FailureIsContained ==
    \A t \in FetchCallers :
       /\ fetchPc[t] # "raised"
       /\ fetchIssued[t] <= fetchArgs[t].retries + 1
       /\ AllAttemptsFailed(t)
          => /\ fetchIssued[t] = fetchArgs[t].retries + 1
             /\ fetchResult[t] = IF fetchArgs[t].is_single_item THEN None ELSE [data |-> <<>>]

\* a step in which a request of t fails leaves the cache as it was
FailedRequestKeepsCache ==
    \A t \in FetchCallers :
       (fetchPc[t] = "get" /\ fetchIssued'[t] = fetchIssued[t] + 1 /\ fetchData'[t] = None)
       => API_CACHE' = API_CACHE

C20_FailureDegradesToEmptyValue == [] FailureIsContained /\ [][FailedRequestKeepsCache]_vars

\* a call with retries = 1 for a list found an expired entry for its key, saw
\* two requests fail and returned {"data": []}; the expired entry is still
\* in the cache
C20_Witness ==
    \E t \in FetchCallers :
       /\ AllAttemptsFailed(t)
       /\ fetchArgs[t].retries = 1
       /\ fetchIssued[t] = 2
       /\ ~fetchArgs[t].is_single_item
       /\ fetchResult[t] = [data |-> <<>>]
       /\ fetchSeen[t] # None
       /\ cache_key(fetchArgs[t].url, fetchArgs[t].params) \in DOMAIN API_CACHE
       /\ API_CACHE[cache_key(fetchArgs[t].url, fetchArgs[t].params)] = fetchSeen[t]

(***************************************************************************)
(* C21: get_local_related_cards returns only cards of the set set_id, of   *)
(* the rarity rarity and with an id other than current_card_id, never more *)
(* than count of them and none twice; when at most count cards qualify it  *)
(* returns them all.                                                       *)
(***************************************************************************)
\* the cards of the catalog that qualify, as positions in _card_data
Qualifying ==
    {i \in 1..Len(card_data) :
        /\ CardPool[card_data[i].card].set_id = relArgs.set_id
        /\ CardPool[card_data[i].card].rarity # <<>>
        /\ CardPool[card_data[i].card].rarity = relArgs.rarity
        /\ CardPool[card_data[i].card].id # relArgs.current_card_id}

C21_RelatedAreTheQualifyingCards ==
    relPc = "returned"
    => /\ \A k \in 1..Len(relOut) : \E i \in Qualifying : relOut[k] = card_data[i]
       /\ Len(relOut) <= relArgs.count
       /\ \A k, m \in 1..Len(relOut) : k # m => relOut[k] # relOut[m]
       /\ Cardinality(Qualifying) <= relArgs.count
          => \A i \in Qualifying : \E k \in 1..Len(relOut) : relOut[k] = card_data[i]

(***************************************************************************)
(* C22: once load_data has loaded a catalog that is not empty, no later    *)
(* operation changes the cards of the catalog or their derived keys: not   *)
(* a search, a lookup by id, a related-cards call, a price lookup, a       *)
(* refresh of the price index, nor another load_data.                      *)
(***************************************************************************)
C22_CatalogIsImmutable == [][card_data # <<>> => card_data' = card_data]_vars

\* load_data has been called again on a catalog that differs from what the
\* files hold now, after the price index was rebuilt from another file, and
\* the catalog is still the one of the first load
C22_Witness ==
    /\ card_data = CatalogOf(<<1>>)
    /\ catDisk.cards = <<2, 7, 8, 3>>
    /\ catOp = "load_data"
    /\ reloaded

(***************************************************************************)
(* C23: _tokenize is idempotent: _tokenize(_tokenize(s)) = _tokenize(s),   *)
(* also for strings with HTML entities, percent escapes, accents or        *)
(* punctuation.                                                            *)
(***************************************************************************)
C23_TokenizeIsIdempotent == tokPc = 2 => tokTwice = tokOnce

\* the string "%2527": the first call decodes it to "%27" and returns "27",
\* which the second call returns as it is
C23_Witness ==
    /\ tokPc = 2
    /\ tokIn = <<"%", "2", "5", "2", "7">>
    /\ tokOnce = <<"2", "7">>
    /\ tokTwice = tokOnce

(***************************************************************************)
(* C24: get_price_override turns to the fuzzy set match only when none of  *)
(* the four exact keys, {clean name, raw name} x {number, digits-only      *)
(* number} with the set key of the query, is in the price map; when some   *)
(* are, it returns the record stored at the first of them in the order     *)
(* (clean, number), (clean, digits), (raw, number), (raw, digits).         *)
(***************************************************************************)
\* the four exact keys of the last lookup, in the order of the claim
ClaimedExactKeys ==
    LET k == ParsedQueries[lastQuery] IN
    <<<<k.name_norm, k.set_norm, k.num_norm>>, <<k.name_norm, k.set_norm, k.num_digits>>,
      <<k.name_raw, k.set_norm, k.num_norm>>, <<k.name_raw, k.set_norm, k.num_digits>>>>

\* the positions of those that are in the price map
PresentExactKeys == {i \in 1..4 : ClaimedExactKeys[i] \in DOMAIN price_map}

\* whether the last lookup went on to the fuzzy match
WentOnToFuzzy == ExactHit(price_map, ParsedQueries[lastQuery]) = 0

C24_ExactKeysComeFirst ==
    lastQuery # 0
    => /\ WentOnToFuzzy => PresentExactKeys = {}
       /\ PresentExactKeys # {}
          => lastResult = price_map[ClaimedExactKeys[FirstHit(PresentExactKeys)]]

(***************************************************************************)
(* C25                                                                     *)
(***************************************************************************)
\* the _ensure_loaded of thread t leaves the "with _LOCK" block in this step
LeavesEnsureLoaded(t) ==
    callPc[t] \in {"path", "mtime", "load"} /\ callPc'[t] = "read"

\* what that _ensure_loaded found: no data file, or the last loaded path with
\* an mtime that is not greater than the last-seen one
FoundNoFile(t) == callPath'[t] = 0

FoundLastPathNotNewer(t) ==
    callPath'[t] # 0 /\ callPath'[t] = LAST_PATH /\ callMtime'[t] <= LAST_MTIME

\* C25: _ensure_loaded leaves _ITEMS, _LAST_PATH and _LAST_MTIME unchanged
\* whenever the chosen path is the last loaded path and its mtime is not
\* strictly greater than the last-seen mtime, and also whenever no data file
\* is found, in which case the inventory loaded before is kept, not emptied.
C25_EnsureLoadedLeavesStateAlone ==
    [][\A t \in Threads :
          (LeavesEnsureLoaded(t) /\ (FoundNoFile(t) \/ FoundLastPathNotNewer(t)))
              => UNCHANGED <<ITEMS, LAST_PATH, LAST_MTIME>>]_vars

\* C25 witness: a call found no data file after an inventory had been loaded,
\* and the inventory is still there
C25_Witness ==
    \E t \in Threads :
        /\ callPc[t] = "read" /\ callPath[t] = 0
        /\ chosen_path(files) = 0
        /\ LAST_PATH # 0 /\ LAST_MTIME > 0 /\ ITEMS # <<>>

\* a call found the last loaded path with an mtime below the last-seen one
C25_OlderMtimeReached ==
    \E t \in Threads :
        /\ callPc[t] = "read" /\ callPath[t] = LAST_PATH /\ LAST_PATH # 0
        /\ callMtime[t] < LAST_MTIME /\ ITEMS # <<>>
(***************************************************************************)
(* C26                                                                     *)
(***************************************************************************)
\* the columns of header line h whose name is one of the aliases, letter case
\* and surrounding blanks aside
AliasColumns(h, aliases) ==
    {i \in 1..Len(ProductHeaders[h]) :
        \E a \in 1..Len(aliases) : HeaderIs(ProductHeaders[h][i], aliases[a])}

\* the cells of row r, not empty, in the columns that an alias names
AliasCells(h, r, aliases) ==
    {Strip(ProductRows[r][i]) : i \in AliasColumns(h, aliases)} \ {<<>>}

\* the inventory holds the product of this title and this url
InInventory(title, url) ==
    \E n \in 1..Len(itemsOut) :
        /\ norm_title(itemsOut[n].title) = norm_title(title)
        /\ canon_url(itemsOut[n].url) = canon_url(url)

\* C26: a product row that has a title that is not empty and a URL that is
\* not empty under the accepted header aliases (title/product/name/item_title
\* and url/link/permalink/product_url, letter case of the header aside) is
\* loaded into the inventory; only rows without a title or without a URL
\* under any alias are skipped.
C26_RowsWithTitleAndUrlAreLoaded ==
    itemsDone =>
        \A k \in 1..Len(itemsFile.rows) :
            \A title \in AliasCells(itemsFile.header, itemsFile.rows[k], TitleHeaders) :
                \A url \in AliasCells(itemsFile.header, itemsFile.rows[k], UrlHeaders) :
                    InInventory(title, url)
(***************************************************************************)
(* C27                                                                     *)
(***************************************************************************)
\* the (name key, number key) pairs of the keys of the price map
PairsOfPriceMap == {<<k[1], k[3]>> : k \in DOMAIN price_map}

\* the pairs that have at least one candidate in the multimap
PairsWithCandidates == {p \in DOMAIN by_name_num : Len(by_name_num[p]) >= 1}

\* C27: after every build of the price index the three structures agree: a
\* (name key, number key) pair occurs in some key of the price map, the set
\* ignored, if and only if it is in the presence set, and if and only if it
\* has at least one candidate in the multimap.
C27_ThreeStructuresAgree ==
    /\ PairsOfPriceMap = price_index
    /\ price_index = PairsWithCandidates
(***************************************************************************)
(* C28                                                                     *)
(***************************************************************************)
\* the candidates of the fuzzy step in the order its loops visit them, each
\* with the key of the price map that its (name, number) pair and its set make
RECURSIVE KeyedCandidates(_, _, _)
KeyedCandidates(nms, nns, i) ==
    IF i > Len(nms) * Len(nns) THEN <<>>
    ELSE LET nm == nms[((i - 1) \div Len(nns)) + 1]
             nn == nns[((i - 1) % Len(nns)) + 1]
             cand_list == IF <<nm, nn>> \in DOMAIN by_name_num
                          THEN by_name_num[<<nm, nn>>] ELSE <<>>
         IN [c \in 1..Len(cand_list) |->
                [key |-> <<nm, cand_list[c][1], nn>>, val |-> cand_list[c][2]]]
            \o KeyedCandidates(nms, nns, i + 1)

\* the candidate that "if score > best_score" leaves as best: the first one
\* of the greatest similarity to the set key of the query
BestKeyed(cands, set_norm) ==
    CHOOSE i \in 1..Len(cands) :
        /\ \A j \in 1..Len(cands) :
              FracGE(SimilarityAt(<<set_norm, cands[i].key[2]>>),
                     SimilarityAt(<<set_norm, cands[j].key[2]>>))
        /\ \A j \in 1..(i - 1) :
              FracGT(SimilarityAt(<<set_norm, cands[i].key[2]>>),
                     SimilarityAt(<<set_norm, cands[j].key[2]>>))

\* the candidates of the last lookup when its two sets are walked in order ord
CandidatesOfLast(ord) ==
    KeyedCandidates(Walk(ParsedQueries[lastQuery].name_norm,
                         ParsedQueries[lastQuery].name_raw, ord.nm),
                    NonEmpty(Walk(ParsedQueries[lastQuery].num_norm,
                                  ParsedQueries[lastQuery].num_digits, ord.nn)), 1)

\* the last lookup found no exact key and returned a candidate of the fuzzy step
FuzzyAccepted ==
    /\ lastQuery # 0
    /\ lastResult # None
    /\ ExactHit(price_map, ParsedQueries[lastQuery]) = 0

SameValues(a, b) ==
    a.market = b.market /\ a.psa9 = b.psa9 /\ a.psa10 = b.psa10

\* C28: when get_price_override falls back to the fuzzy set match and accepts
\* a candidate, the record it returns has the market, psa9 and psa10 values of
\* the record that the price map stores under the candidate's (name key, set
\* key, number key), the quality-score winner of that key.
C28_FuzzyResultIsTheStoredRecord ==
    FuzzyAccepted =>
        \A ord \in SetOrders :
            LET cands == CandidatesOfLast(ord)
                best  == cands[BestKeyed(cands, ParsedQueries[lastQuery].set_norm)]
            IN best.val = lastResult => SameValues(lastResult, price_map[best.key])
(***************************************************************************)
(* C29                                                                     *)
(***************************************************************************)
\* the name keys, set keys and number keys that the three structures hold
KeysOfPriceMap == UNION {{k[1], k[2], k[3]} : k \in DOMAIN price_map}

KeysOfPresenceSet == UNION {{p[1], p[2]} : p \in price_index}

KeysOfMultimap ==
    UNION {{p[1], p[2]} \cup {by_name_num[p][i][1] : i \in 1..Len(by_name_num[p])} :
              p \in DOMAIN by_name_num}

\* C29: after every build of the price index, no key of the price map, no
\* pair of the presence set and no key of the multimap has an empty name key,
\* an empty set key or an empty number key.
C29_NoEmptyKeyComponent ==
    <<>> \notin KeysOfPriceMap \cup KeysOfPresenceSet \cup KeysOfMultimap
(***************************************************************************)
(* C30                                                                     *)
(***************************************************************************)
\* how often item it is in the list
TimesIn(items, it) == Cardinality({n \in 1..Len(items) : items[n] = it})

\* the list out holds the items of the inventory that match the term, each as
\* often as the inventory does
HoldsTheMatching(out) ==
    LET want == Matching(sortItems, SearchToks(sortTerm))
    IN /\ Len(out) = Len(want)
       /\ \A n \in 1..Len(want) : TimesIn(out, want[n]) = TimesIn(want, want[n])

\* every item without a price stands behind every item with one
UnpricedLast(out) ==
    \A i, j \in 1..Len(out) :
        (out[i].price_float = NoFloat /\ out[j].price_float # NoFloat) => j < i

\* the prices of the priced items, in their order, never fall (dir = 1) or
\* never rise (dir = -1)
PricesInOrder(out, dir) ==
    \A i, j \in 1..Len(out) :
        (i < j /\ out[i].price_float # NoFloat /\ out[j].price_float # NoFloat)
            => dir * out[i].price_float <= dir * out[j].price_float

\* C30: search_products_all with sort='price_asc' returns the matching items
\* in non-decreasing price_float order with every item that has no price
\* behind all priced items; with sort='price_desc' it returns them in
\* non-increasing price_float order, again with the unpriced items last.
C30_PriceSortsAreOrdered ==
    (sortDone /\ sortMode \in {"price_asc", "price_desc"}) =>
        /\ HoldsTheMatching(sortOut)
        /\ UnpricedLast(sortOut)
        /\ PricesInOrder(sortOut, IF sortMode = "price_asc" THEN 1 ELSE -1)
====
